---- MODULE Spec2Model ----
(***************************************************************************)
(* A model of the s3-vector-voxco client: the Document model               *)
(* (src/src/document.py), the embedding provider adapter                   *)
(* (src/webdemo/utils/embeddings.py), the similarity utilities             *)
(* (src/webdemo/utils/similarity.py), the vector store client adapter      *)
(* (src/src/s3_vectors_client.py) and the manager                          *)
(* (src/webdemo/utils/s3_vectors.py).                                      *)
(*                                                                         *)
(* Floats are modelled as integers counting units of 1/Unit, so 1.0 is     *)
(* Unit and the half-open interval [0,1) is 0..Unit-1.  A Python call      *)
(* either returns a value or raises: Return(v) / Raise(type, msg).         *)
(***************************************************************************)
EXTENDS Integers, Sequences, FiniteSets, TLC

VARIABLES
    dIn,        \* Document: the arguments of the last construction
    dOut,       \* Document: its outcome (a Document returned, or an error raised)
    dRec,       \* Document: the store record of the last to_s3_vector_format()
    eIn,        \* embeddings: the argument of the last generate_embedding(s) call
    eApi,       \* embeddings: what the remote embeddings.create call did
    eOut,       \* embeddings: the outcome of the call
    sIn,        \* similarity: the arguments of the last call
    sOut,       \* similarity: its outcome
    bucketExists,   \* store: the vector bucket exists
    indexExists,    \* store: the vector index exists
    lcHist,     \* client: the create_bucket / create_index calls made so far
    lcPc,       \* client: "sleeping" while create_index is in time.sleep
    lcPending,  \* client: the create_index call that is sleeping
    lcNow,      \* the time, in seconds since the first call
    store,      \* store: the records of the index, in listing order
    mPc,        \* manager: where the operation in flight stands ("idle": none)
    mLocal,     \* manager: the local variables of the operation in flight
    mCalls,     \* manager: the store requests of the current / last operation
    mRet,       \* manager: the last completed operation and its outcome
    mN,         \* the number of records the index held when the operation began
    mWritten,   \* another writer changed the index during the operation
    mLog,       \* manager, client: the operations completed so far, in order
    nOps,       \* operations begun so far
    lTotal,     \* bulk load: the number of records to load
    lPc,        \* bulk load: where main() stands
    lFutures,   \* bulk load: the batches submitted to the executor, in order,
                \* each with the keys put and the result once it has run
    lResults,   \* bulk load: the results collected so far, as they completed
    lStats,     \* bulk load: the statistics calculated at the end
    lDraw       \* bulk load: the run's draw of random numbers

docVars == <<dIn, dOut, dRec>>

embVars == <<eIn, eApi, eOut>>

simVars == <<sIn, sOut>>

lcVars == <<bucketExists, indexExists, lcHist, lcPc, lcPending, lcNow>>

mgrVars == <<store, mPc, mLocal, mCalls, mRet, mN, mWritten, mLog, nOps>>

loadVars == <<lTotal, lPc, lFutures, lResults, lStats, lDraw>>

vars == <<dIn, dOut, dRec, eIn, eApi, eOut, sIn, sOut,
          bucketExists, indexExists, lcHist, lcPc, lcPending, lcNow,
          store, mPc, mLocal, mCalls, mRet, mN, mWritten, mLog, nOps,
          lTotal, lPc, lFutures, lResults, lStats, lDraw>>

\* what an action of one component leaves alone: the other components
docOthers == <<embVars, simVars, lcVars, mgrVars, loadVars>>

embOthers == <<docVars, simVars, lcVars, mgrVars, loadVars>>

simOthers == <<docVars, embVars, lcVars, mgrVars, loadVars>>

lcOthers == <<docVars, embVars, simVars, mgrVars, loadVars>>

mgrOthers == <<docVars, embVars, simVars, lcVars, loadVars>>

loadOthers == <<docVars, embVars, simVars, lcVars,
                mPc, mLocal, mCalls, mRet, mN, mWritten, mLog, nOps>>

----------------------------------------------------------------------------
(* Python values *)

Return(v) == [outcome |-> "return", value |-> v]

Raise(type, msg) == [outcome |-> "raise", error |-> type, msg |-> msg]

NoneArg == [isNone |-> TRUE]

Some(v) == [isNone |-> FALSE, val |-> v]

Min(a, b) == IF a <= b THEN a ELSE b

Max(a, b) == IF a >= b THEN a ELSE b

\* str(n) of a non-negative int: its decimal digits, most significant first
RECURSIVE IntStr(_)
IntStr(n) ==
    LET d == <<"0", "1", "2", "3", "4", "5", "6", "7", "8", "9">>[(n % 10) + 1]
    IN  IF n < 10 THEN <<d>> ELSE Append(IntStr(n \div 10), d)

DigitVal(c) ==
    CHOOSE d \in 0..9 :
        <<"0", "1", "2", "3", "4", "5", "6", "7", "8", "9">>[d + 1] = c

\* int(s) of a sequence of decimal digits
RECURSIVE ParseInt(_)
ParseInt(s) ==
    IF s = <<>> THEN 0
    ELSE 10 * ParseInt(SubSeq(s, 1, Len(s) - 1)) + DigitVal(s[Len(s)])

\* bool(x) of an Optional[str]: None and '' are false
Truthy(x) == ~x.isNone /\ x.val /= <<>>

----------------------------------------------------------------------------
(* Bounds of the model *)

\* floats are counted in units of 1/Unit
Unit == 4

\* number of distinct uuid4() draws offered to a construction
MaxUuid == 2

\* np.random.rand draws are taken from MaxSeed + 1 different vectors
MaxSeed == 3

\* longest list of texts given to generate_embeddings
MaxBatch == 3

\* dimension of the vectors given to the similarity utilities
SimDim == 2

\* longest candidate list given to rank_by_similarity
MaxCands == 3

\* largest top_k given to rank_by_similarity
MaxTopK == 3

\* binary digits of a float's mantissa
Precision == 12

\* number of create_bucket / create_index calls in a behaviour
MaxCreateCalls == 3

\* number of manager / client operations in a behaviour
MaxOps == 1

\* number of list_vectors requests followed in one get_document_count
MaxPages == 8

----------------------------------------------------------------------------
(* src/src/document.py *)

EMBEDDING_DIM == 128

\* uuid.uuid4(): 32 hexadecimal digits, version nibble 4, variant bits 10xx;
\* the other digits are random (here: drawn from the seed)
Uuid4(seed) ==
    [i \in 1..32 |->
        IF i = 13 THEN 4
        ELSE IF i = 17 THEN 8 + (seed % 4)
        ELSE (seed \div <<1, 16, 256, 4096>>[((i - 1) % 4) + 1]) % 16]

HexChar(d) ==
    <<"0", "1", "2", "3", "4", "5", "6", "7",
      "8", "9", "a", "b", "c", "d", "e", "f">>[d + 1]

\* str(uuid): the digits grouped 8-4-4-4-12, the groups joined by hyphens
UuidStr(u) ==
    LET hex(a, b) == [i \in 1..(b - a + 1) |-> HexChar(u[a + i - 1])]
    IN  hex(1, 8) \o <<"-">> \o hex(9, 12) \o <<"-">> \o hex(13, 16)
          \o <<"-">> \o hex(17, 20) \o <<"-">> \o hex(21, 32)

\* np.random.rand(n).tolist(): n floats, each in [0,1); the draw is named by
\* its seed
RandomVector(n, seed) == [i \in 1..n |-> (seed * i + (seed \div 2)) % Unit]

RandomVectors(n) == { RandomVector(n, seed) : seed \in 0..MaxSeed }

\* Document.__post_init__ (the error message as a sequence of characters after
\* its fixed prefix)
MutPostInitWrongTest(doc) ==
    IF Len(doc.embedding) > EMBEDDING_DIM
    THEN Raise("ValueError",
               <<"Embedding must be 128 dimensions, got ">>
                   \o IntStr(Len(doc.embedding)))
    ELSE Return(doc)

post_init(doc) ==
    IF Len(doc.embedding) /= EMBEDDING_DIM
    THEN Raise("ValueError",
               <<"Embedding must be 128 dimensions, got ">>
                   \o IntStr(Len(doc.embedding)))
    ELSE Return(doc)

\* Document(key, content, embedding): the dataclass constructor, which sets the
\* fields and then runs __post_init__
Document(key, content, embedding) ==
    post_init([key |-> key, content |-> content, embedding |-> embedding])

\* Document.create with the key uuid.hex, the digits without the hyphens
MutCreateKeyHex(content, embedding, u, rnd) ==
    LET e == IF embedding.isNone THEN rnd ELSE embedding.val
    IN  Document([i \in 1..32 |-> HexChar(u[i])], content, e)

\* Document.create(content, embedding=None); u is the uuid4() draw and rnd the
\* np.random.rand(128) draw
Document_create(content, embedding, u, rnd) ==
    LET e == IF embedding.isNone THEN rnd ELSE embedding.val
    IN  Document(UuidStr(u), content, e)

\* Document.to_s3_vector_format
MutFormatReversed(doc) ==
    [key |-> doc.key,
     data |-> [float32 |-> [i \in 1..Len(doc.embedding) |->
                               doc.embedding[Len(doc.embedding) + 1 - i]]],
     metadata |-> [content |-> doc.content]]

to_s3_vector_format(doc) ==
    [key |-> doc.key,
     data |-> [float32 |-> doc.embedding],
     metadata |-> [content |-> doc.content]]

----------------------------------------------------------------------------
(* The Document model driven by its callers: a behaviour is one construction,    *)
(* followed by to_s3_vector_format() when a Document resulted                    *)

Keys == {<<"t", "e", "s", "t">>, <<"k">>}

Contents == {"hello", "Convert to S3 format"}

EmbeddingLens == {0, 1, 64, 127, 128, 129}

\* caller-supplied embeddings: every length of EmbeddingLens, constant and
\* varying components
Embeddings ==
    { [i \in 1..n |-> (a * i + b) % (2 * Unit)] :
        n \in EmbeddingLens, a \in 0..1, b \in 0..1 }

NoDoc == [outcome |-> "none"]

NoRec == [key |-> <<>>, data |-> [float32 |-> <<>>], metadata |-> [content |-> ""]]

DocInit ==
    /\ dIn = [op |-> "none"]
    /\ dOut = NoDoc
    /\ dRec = NoRec

\* Document(key=..., content=..., embedding=...)
NewDocument ==
    /\ dOut = NoDoc
    /\ \E key \in Keys, content \in Contents, e \in Embeddings :
           /\ dIn' = [op |-> "Document", key |-> key, content |-> content,
                      embedding |-> e]
           /\ dOut' = Document(key, content, e)
           /\ dRec' = NoRec
           /\ UNCHANGED docOthers

\* Document.create(content, embedding)
CreateDocument ==
    /\ dOut = NoDoc
    /\ \E content \in Contents, e \in Embeddings, seed \in 1..MaxUuid :
           /\ dIn' = [op |-> "create", content |-> content, embedding |-> e,
                      key |-> UuidStr(Uuid4(seed))]
           \* no random draw is made when the caller supplies the embedding
           /\ dOut' = Document_create(content, Some(e), Uuid4(seed), <<>>)
           /\ dRec' = NoRec
           /\ UNCHANGED docOthers

\* Document.create(content)
CreateDocumentDefault ==
    /\ dOut = NoDoc
    /\ \E content \in Contents, seed \in 1..MaxUuid,
          rnd \in RandomVectors(EMBEDDING_DIM) :
           /\ dIn' = [op |-> "create_default", content |-> content,
                      embedding |-> rnd, key |-> UuidStr(Uuid4(seed))]
           /\ dOut' = Document_create(content, NoneArg, Uuid4(seed), rnd)
           /\ dRec' = NoRec
           /\ UNCHANGED docOthers

\* doc.to_s3_vector_format() on the Document just constructed
ToS3VectorFormat ==
    /\ dOut.outcome = "return"
    /\ dRec = NoRec
    /\ dRec' = to_s3_vector_format(dOut.value)
    /\ UNCHANGED <<dIn, dOut>>
    /\ UNCHANGED docOthers

DocNext ==
    \/ NewDocument
    \/ CreateDocument
    \/ CreateDocumentDefault
    \/ ToS3VectorFormat

----------------------------------------------------------------------------
(* src/webdemo/utils/embeddings.py *)

TARGET_DIMENSION == 128

Texts == <<"Python programming", "hello", "">>

TextSet == { Texts[i] : i \in 1..Len(Texts) }

\* the failures of the remote call: network, auth, quota
ApiFaults == {"APIConnectionError", "AuthenticationError", "RateLimitError"}

\* the vector the embedding service computes for a text, `dimensions` long
ApiEmbedding(text, dimensions) ==
    LET id == CHOOSE i \in 1..Len(Texts) : Texts[i] = text
    IN  [i \in 1..dimensions |-> (id * i) % (2 * Unit)]

\* self.client.embeddings.create(model, input, dimensions): the remote service
\* answers one item per input text, in input order, each embedding
\* `dimensions` long; it rejects an empty input list, and any call may fail
\* with `fault`
embeddings_create(input, dimensions, fault) ==
    IF fault /= "ok" THEN Raise(fault, "remote call failed")
    ELSE IF input = <<>> THEN Raise("BadRequestError", "input is empty")
    ELSE Return([data |-> [i \in 1..Len(input) |->
                              [embedding |-> ApiEmbedding(input[i], dimensions),
                               index |-> i - 1]]])

\* OpenAIEmbeddings.generate_embedding; rnd is the np.random.rand draw of the
\* except branch
MutGenerateEmbeddingReraise(text, fault, rnd) ==
    LET response == embeddings_create(<<text>>, TARGET_DIMENSION, fault)
    IN  IF response.outcome = "return"
        THEN Return(response.value.data[1].embedding)
        ELSE response

generate_embedding(text, fault, rnd) ==
    LET response == embeddings_create(<<text>>, TARGET_DIMENSION, fault)
    IN  IF response.outcome = "return"
        THEN IF Len(response.value.data) >= 1
             THEN Return(response.value.data[1].embedding)
             ELSE Return(rnd)      \* IndexError, caught by except Exception
        ELSE Return(rnd)           \* except Exception: the random fallback

\* OpenAIEmbeddings.generate_embeddings; rnds[i] is the i-th np.random.rand
\* draw of the except branch
MutGenerateEmbeddingsOneFallback(texts, fault, rnds) ==
    LET response == embeddings_create(texts, TARGET_DIMENSION, fault)
    IN  IF response.outcome = "return"
        THEN Return([i \in 1..Len(response.value.data) |->
                        response.value.data[i].embedding])
        ELSE Return(<<rnds[1]>>)

generate_embeddings(texts, fault, rnds) ==
    LET response == embeddings_create(texts, TARGET_DIMENSION, fault)
    IN  IF response.outcome = "return"
        THEN Return([i \in 1..Len(response.value.data) |->
                        response.value.data[i].embedding])
        ELSE Return([i \in 1..Len(texts) |-> rnds[i]])

----------------------------------------------------------------------------
(* The embedding adapter driven by its callers: a behaviour is one call *)

TextLists == UNION { [1..n -> TextSet] : n \in 0..MaxBatch }

NoCall == [outcome |-> "none"]

EmbInit ==
    /\ eIn = [op |-> "none"]
    /\ eApi = "none"
    /\ eOut = NoCall

\* embeddings_client.generate_embedding(text)
GenerateEmbedding ==
    /\ eOut = NoCall
    /\ \E text \in TextSet, fault \in {"ok"} \cup ApiFaults, seed \in 0..MaxSeed :
           /\ eIn' = [op |-> "generate_embedding", text |-> text]
           /\ eApi' = embeddings_create(<<text>>, TARGET_DIMENSION, fault).outcome
           /\ eOut' = generate_embedding(text, fault,
                                         RandomVector(TARGET_DIMENSION, seed))
           /\ UNCHANGED embOthers

\* embeddings_client.generate_embeddings(texts)
GenerateEmbeddings ==
    /\ eOut = NoCall
    /\ \E texts \in TextLists, fault \in {"ok"} \cup ApiFaults, seed \in 0..MaxSeed :
           /\ eIn' = [op |-> "generate_embeddings", texts |-> texts]
           /\ eApi' = embeddings_create(texts, TARGET_DIMENSION, fault).outcome
           /\ eOut' = generate_embeddings(texts, fault,
                          [i \in 1..(MaxBatch + 1) |->
                              RandomVector(TARGET_DIMENSION, (seed + i) % (MaxSeed + 1))])
           /\ UNCHANGED embOthers

EmbNext ==
    \/ GenerateEmbedding
    \/ GenerateEmbeddings

----------------------------------------------------------------------------
(* src/webdemo/utils/similarity.py *)

(* numpy computes in binary floating point: a float is 0 or s * m * 2^e with  *)
(* s the sign and m a mantissa of Precision bits, 2^(Precision-1) <= m <      *)
(* 2^Precision (np.float64 carries 53 bits), and every operation returns the  *)
(* float nearest to the exact result, a tie going to the even mantissa.       *)
(* Exponents are unbounded here: no overflow or underflow.                    *)

Float(s, m, e) == [finite |-> TRUE, s |-> s, m |-> m, e |-> e]

\* the float 0.0
Zero == Float(0, 0, 0)

\* nan or inf, the result of a division by zero
NaN == [finite |-> FALSE, s |-> 0, m |-> 0, e |-> 0]

Sgn(x) == IF x > 0 THEN 1 ELSE IF x < 0 THEN -1 ELSE 0

Abs(x) == IF x < 0 THEN -x ELSE x

\* number of binary digits of n >= 0
RECURSIVE Bits(_)
Bits(n) == IF n = 0 THEN 0 ELSE 1 + Bits(n \div 2)

\* the float nearest to s * n * 2^e (n >= 0; sticky: the exact value lies
\* strictly above n * 2^e and below (n + 1) * 2^e, and n has more than
\* Precision digits)
RoundFloat(s, n, e, sticky) ==
    IF n = 0 THEN Zero
    ELSE LET b == Bits(n) IN
         IF b <= Precision
         THEN Float(s, n * 2^(Precision - b), e - (Precision - b))
         ELSE LET k == b - Precision
                  q == n \div 2^k
                  r == n % 2^k
                  half == 2^(k - 1)
                  up == r > half \/ (r = half /\ (sticky \/ q % 2 = 1))
                  q1 == IF up THEN q + 1 ELSE q
              IN  IF q1 = 2^Precision
                  THEN Float(s, 2^(Precision - 1), e + k + 1)
                  ELSE Float(s, q1, e + k)

\* np.array(vec): a component given as a whole number
FromInt(n) == RoundFloat(Sgn(n), Abs(n), 0, FALSE)

FMul(a, b) == RoundFloat(a.s * b.s, a.m * b.m, a.e + b.e, FALSE)

FAdd(a, b) ==
    IF a.s = 0 THEN b
    ELSE IF b.s = 0 THEN a
    ELSE LET e == Min(a.e, b.e)
             n == a.s * a.m * 2^(a.e - e) + b.s * b.m * 2^(b.e - e)
         IN  RoundFloat(Sgn(n), Abs(n), e, FALSE)

\* a / b; a division by zero gives no finite float
FDiv(a, b) ==
    IF b.s = 0 THEN NaN
    ELSE IF a.s = 0 THEN Zero
    ELSE LET n == a.m * 2^(Precision + 1)
         IN  RoundFloat(a.s * b.s, n \div b.m, a.e - b.e - (Precision + 1),
                        n % b.m /= 0)

\* the largest r in lo..hi-1 with r * r <= x, given lo * lo <= x < hi * hi
RECURSIVE ISqrt(_, _, _)
ISqrt(x, lo, hi) ==
    IF hi - lo <= 1 THEN lo
    ELSE LET mid == (lo + hi) \div 2
         IN  IF mid * mid <= x THEN ISqrt(x, mid, hi) ELSE ISqrt(x, lo, mid)

\* np.sqrt(a), a >= 0
FSqrt(a) ==
    IF a.s = 0 THEN Zero
    ELSE LET k == IF (a.e - (Precision + 1)) % 2 = 0
                  THEN Precision + 1 ELSE Precision + 2
             x == a.m * 2^k
             r == ISqrt(x, 0, 2^(Precision + 2))
         IN  RoundFloat(1, r, (a.e - k) \div 2, r * r /= x)

\* a < b; nothing is less than nan, and nan is less than nothing
FLess(a, b) ==
    /\ a.finite /\ b.finite
    /\ IF a.s /= b.s THEN a.s < b.s
       ELSE IF a.s = 0 THEN FALSE
       ELSE IF a.e /= b.e THEN (IF a.s > 0 THEN a.e < b.e ELSE a.e > b.e)
       ELSE (IF a.s > 0 THEN a.m < b.m ELSE a.m > b.m)

\* np.dot(a, b): the products added up from the left
RECURSIVE Dot(_, _)
Dot(a, b) ==
    IF a = <<>> THEN Zero
    ELSE FAdd(Dot(SubSeq(a, 1, Len(a) - 1), SubSeq(b, 1, Len(a) - 1)),
              FMul(FromInt(a[Len(a)]), FromInt(b[Len(a)])))

\* np.linalg.norm(v): sqrt(dot(v, v))
Norm(v) == FSqrt(Dot(v, v))

\* a < b for two similarities
ScoreLess(a, b) == FLess(a, b)

\* cosine_similarity(vec1, vec2); np.dot raises on vectors of different length
MutCosineBothZero(vec1, vec2) ==
    IF Len(vec1) /= Len(vec2)
    THEN Raise("ValueError", "shapes not aligned")
    ELSE IF Norm(vec1) = Zero /\ Norm(vec2) = Zero
    THEN Return(Zero)
    ELSE Return(FDiv(Dot(vec1, vec2), FMul(Norm(vec1), Norm(vec2))))

cosine_similarity(vec1, vec2) ==
    IF Len(vec1) /= Len(vec2)
    THEN Raise("ValueError", "shapes not aligned")
    ELSE LET dot_product == Dot(vec1, vec2)
             norm1 == Norm(vec1)
             norm2 == Norm(vec2)
         IN  IF norm1 = Zero \/ norm2 = Zero
             THEN Return(Zero)
             ELSE Return(FDiv(dot_product, FMul(norm1, norm2)))

\* cosine_similarity_percentage(vec1, vec2): (similarity + 1) / 2 * 100
cosine_similarity_percentage(vec1, vec2) ==
    LET similarity == cosine_similarity(vec1, vec2)
    IN  IF similarity.outcome = "raise" THEN similarity
        ELSE Return(FMul(FDiv(FAdd(similarity.value, FromInt(1)), FromInt(2)),
                         FromInt(100)))

\* 'data' in doc and 'float32' in doc['data']
HasEmbedding(doc) ==
    "data" \in DOMAIN doc /\ "float32" \in DOMAIN doc.data

\* the for loop of rank_by_similarity: results after documents[1..n], or the
\* error cosine_similarity raised on the way
RECURSIVE Collect(_, _, _)
Collect(query_vector, documents, n) ==
    IF n = 0 THEN Return(<<>>)
    ELSE LET before == Collect(query_vector, documents, n - 1)
             doc == documents[n]
         IN  IF before.outcome = "raise" THEN before
             ELSE IF ~HasEmbedding(doc) THEN before
             ELSE LET similarity ==
                          cosine_similarity(query_vector, doc.data.float32)
                  IN  IF similarity.outcome = "raise" THEN similarity
                      ELSE Return(Append(before.value, <<doc, similarity.value>>))

\* results.sort(key=lambda x: x[1], reverse=True): a stable sort, so entries of
\* equal similarity keep their order; x goes behind every entry that is not
\* smaller
RECURSIVE MutInsertBeforeEqual(_, _)
\* a descending sort that puts x before the entries equal to it
MutInsertBeforeEqual(sorted, x) ==
    IF sorted = <<>> THEN <<x>>
    ELSE IF ~ScoreLess(x[2], Head(sorted)[2])
         THEN <<x>> \o sorted
         ELSE <<Head(sorted)>> \o MutInsertBeforeEqual(Tail(sorted), x)

RECURSIVE InsertDescending(_, _)
InsertDescending(sorted, x) ==
    IF sorted = <<>> THEN <<x>>
    ELSE IF ScoreLess(Head(sorted)[2], x[2])
         THEN <<x>> \o sorted
         ELSE <<Head(sorted)>> \o InsertDescending(Tail(sorted), x)

RECURSIVE SortDescending(_, _)
SortDescending(results, n) ==
    IF n = 0 THEN <<>>
    ELSE InsertDescending(SortDescending(results, n - 1), results[n])

\* results[:top_k], a negative top_k counting from the end
Slice(results, top_k) ==
    IF top_k >= 0
    THEN SubSeq(results, 1, Min(top_k, Len(results)))
    ELSE SubSeq(results, 1, Max(0, Len(results) + top_k))

MutRankNoTruncate(query_vector, documents, top_k) ==
    LET results == Collect(query_vector, documents, Len(documents))
    IN  IF results.outcome = "raise" THEN results
        ELSE Return(SortDescending(results.value, Len(results.value)))

rank_by_similarity(query_vector, documents, top_k) ==
    LET results == Collect(query_vector, documents, Len(documents))
    IN  IF results.outcome = "raise" THEN results
        ELSE Return(Slice(SortDescending(results.value, Len(results.value)),
                          top_k))

----------------------------------------------------------------------------
(* The similarity utilities driven by their callers: a behaviour is one call *)

\* vectors of n components: zero, the axes, multiples, diagonals
Axis(n, k, c) == [i \in 1..n |-> IF i = k THEN c ELSE 0]

SimVectors(n) ==
    { Axis(n, 1, c) : c \in {-1, 0, 1, 2} }
        \cup { Axis(n, n, 1) }
        \cup { [i \in 1..n |-> c] : c \in {-1, 1} }
        \cup { [i \in 1..n |-> IF i = 1 THEN 1 ELSE -1] }

\* the embeddings of the candidates of a ranking: along the first axis (two
\* of one direction, one opposite) and the diagonal
RankVectors(n) ==
    { Axis(n, 1, c) : c \in {-1, 1, 2} } \cup { [i \in 1..n |-> 1] }

\* the queries of a ranking: an axis, the diagonal, the zero vector
RankQueries(n) ==
    { Axis(n, 1, 1), [i \in 1..n |-> 1], [i \in 1..n |-> 0] }

\* candidates as the store returns them: with data and metadata, with the key
\* alone (no 'data'), or with a 'data' that holds no 'float32'
Candidates ==
    { [key |-> v, data |-> [float32 |-> v], metadata |-> [content |-> "c"]] :
        v \in RankVectors(SimDim) }
      \cup { [key |-> <<>>], [key |-> <<>>, data |-> <<>>] }

CandidateLists == UNION { [1..n -> Candidates] : n \in 0..MaxCands }

SimInit ==
    /\ sIn = [op |-> "none"]
    /\ sOut = NoCall

\* cosine_similarity(vec1, vec2)
CosineSimilarity ==
    /\ sOut = NoCall
    /\ \E vec1 \in SimVectors(SimDim), vec2 \in SimVectors(SimDim) :
           /\ sIn' = [op |-> "cosine_similarity", vec1 |-> vec1, vec2 |-> vec2]
           /\ sOut' = cosine_similarity(vec1, vec2)
           /\ UNCHANGED simOthers

\* cosine_similarity_percentage(vec1, vec2)
CosineSimilarityPercentage ==
    /\ sOut = NoCall
    /\ \E vec1 \in SimVectors(SimDim), vec2 \in SimVectors(SimDim) :
           /\ sIn' = [op |-> "cosine_similarity_percentage",
                      vec1 |-> vec1, vec2 |-> vec2]
           /\ sOut' = cosine_similarity_percentage(vec1, vec2)
           /\ UNCHANGED simOthers

\* rank_by_similarity(query_vector, documents, top_k)
RankBySimilarity ==
    /\ sOut = NoCall
    /\ \E q \in RankQueries(SimDim), docs \in CandidateLists, k \in 0..MaxTopK :
           /\ sIn' = [op |-> "rank_by_similarity", query_vector |-> q,
                      documents |-> docs, top_k |-> k]
           /\ sOut' = rank_by_similarity(q, docs, k)
           /\ UNCHANGED simOthers

SimNext ==
    \/ CosineSimilarity
    \/ CosineSimilarityPercentage
    \/ RankBySimilarity

----------------------------------------------------------------------------
(* src/src/s3_vectors_client.py: bucket and index creation *)

\* a botocore ClientError carrying e.response['Error']['Code']
ClientError(code) == Raise("ClientError", code)

\* errors of a store request other than "already exists": ClientErrors of
\* other codes, and a failure that is no ClientError at all
OtherFaults ==
    { ClientError(code) :
        code \in {"AccessDeniedException", "ThrottlingException", ""} }
      \cup { Raise("EndpointConnectionError", "could not connect") }

\* the codes by which the store reports that the bucket / the index exists
BucketConflictCodes == {"BucketAlreadyExists", "ConflictException"}

IndexConflictCodes == {"IndexAlreadyExists", "ConflictException"}

\* the store's answers to client.create_vector_bucket(vectorBucketName)
CreateVectorBucketAnswers(exists) ==
    OtherFaults \cup
        IF exists
        THEN { ClientError(code) : code \in BucketConflictCodes }
        ELSE { Return([vectorBucketArn |-> "arn"]) }

\* the store's answers to client.create_index(vectorBucketName, indexName, ...)
CreateIndexAnswers(bucket, exists) ==
    OtherFaults \cup
        IF ~bucket THEN { ClientError("NotFoundException") }
        ELSE IF exists
             THEN { ClientError(code) : code \in IndexConflictCodes }
             ELSE { Return([indexArn |-> "arn"]) }

\* S3VectorsClient.create_bucket, given the store's answer
MutCreateBucketReraise(response) == response

create_bucket(response) ==
    IF response.outcome = "return" THEN response
    ELSE IF response.error = "ClientError"
              /\ response.msg \in {"BucketAlreadyExists", "ConflictException"}
         THEN Return([Status |-> "AlreadyExists"])
         ELSE response      \* raise

\* the seconds create_index sleeps before it returns
INDEX_READY_SLEEP == 2

\* create_index that sleeps whenever it returns a value
MutCreateIndexSleepOnConflict(response) ==
    IF response.outcome = "return"
    THEN [result |-> response, slept |-> INDEX_READY_SLEEP]
    ELSE IF response.error = "ClientError"
              /\ response.msg \in {"IndexAlreadyExists", "ConflictException"}
         THEN [result |-> Return([Status |-> "AlreadyExists"]),
               slept |-> INDEX_READY_SLEEP]
         ELSE [result |-> response, slept |-> 0]

\* S3VectorsClient.create_index, given the store's answer: the result and the
\* time slept before it
create_index(response) ==
    IF response.outcome = "return"
    THEN [result |-> response, slept |-> INDEX_READY_SLEEP]
    ELSE IF response.error = "ClientError"
              /\ response.msg \in {"IndexAlreadyExists", "ConflictException"}
         THEN [result |-> Return([Status |-> "AlreadyExists"]), slept |-> 0]
         ELSE [result |-> response, slept |-> 0]

----------------------------------------------------------------------------
(* Bucket and index creation driven by a caller *)

NoPending == [op |-> "none"]

LcInit ==
    /\ bucketExists \in BOOLEAN
    /\ indexExists \in BOOLEAN
    /\ indexExists => bucketExists
    /\ lcHist = <<>>
    /\ lcPc = "idle"
    /\ lcPending = NoPending
    /\ lcNow = 0

\* s3_client.create_bucket()
CreateBucket ==
    /\ lcPc = "idle"
    /\ Len(lcHist) < MaxCreateCalls
    /\ \E response \in CreateVectorBucketAnswers(bucketExists) :
           /\ bucketExists' = (bucketExists \/ response.outcome = "return")
           /\ lcHist' = Append(lcHist,
                               [op |-> "create_bucket", answer |-> response,
                                result |-> create_bucket(response), slept |-> 0,
                                issued |-> lcNow, returned |-> lcNow])
           /\ UNCHANGED <<indexExists, lcPc, lcPending, lcNow>>
           /\ UNCHANGED lcOthers

\* s3_client.create_index(dimensions=128): the request and what follows it
\* up to the return, or up to time.sleep(2) when the method sleeps
CreateIndex ==
    /\ lcPc = "idle"
    /\ Len(lcHist) < MaxCreateCalls
    /\ \E response \in CreateIndexAnswers(bucketExists, indexExists) :
           LET call == [op |-> "create_index", answer |-> response,
                        result |-> create_index(response).result,
                        slept |-> create_index(response).slept,
                        issued |-> lcNow, returned |-> lcNow]
           IN  /\ indexExists' = (indexExists \/ response.outcome = "return")
               /\ IF call.slept > 0
                  THEN /\ lcPc' = "sleeping"
                       /\ lcPending' = call
                       /\ lcHist' = lcHist
                  ELSE /\ lcPc' = "idle"
                       /\ lcPending' = NoPending
                       /\ lcHist' = Append(lcHist, call)
               /\ UNCHANGED <<bucketExists, lcNow>>
               /\ UNCHANGED lcOthers

\* time.sleep(2) is over, it took the time asked for or a second more, and
\* create_index returns the response
CreateIndexWake ==
    /\ lcPc = "sleeping"
    /\ \E over \in 0..1 :
           /\ lcNow' = lcNow + lcPending.slept + over
           /\ lcHist' = Append(lcHist, [lcPending EXCEPT !.returned = lcNow'])
    /\ lcPc' = "idle"
    /\ lcPending' = NoPending
    /\ UNCHANGED <<bucketExists, indexExists>>
    /\ UNCHANGED lcOthers

LcNext ==
    \/ CreateBucket
    \/ CreateIndex
    \/ CreateIndexWake

----------------------------------------------------------------------------
(* The vector store behind boto3.client('s3vectors'): what it answers to the   *)
(* requests of src/src/s3_vectors_client.py and src/webdemo/utils/s3_vectors.py *)

\* the failures of a store request: a ClientError, and one that is none
StoreFaults ==
    { ClientError("ServiceUnavailableException"),
      Raise("EndpointConnectionError", "could not connect") }

\* the record with which the index was populated at position i, kept by its
\* key (the listing and delete requests read nothing else of a record)
PopulatedRecord(i) == [key |-> <<"perf-test-">> \o IntStr(i)]

PopulatedStore(n) == [i \in 1..n |-> PopulatedRecord(i)]

KeysOf(vectors) == { vectors[i].key : i \in 1..Len(vectors) }

\* the position a continuation token stands for: the store's tokens are the
\* number of records already listed, in decimal
TokenOffset(nextToken) ==
    IF nextToken.isNone THEN 0 ELSE ParseInt(nextToken.val)

\* list_vectors(maxResults, nextToken): a page of keys and, while records
\* remain, a continuation token.  The store fills the page up to maxResults,
\* or stops early (at half of maxResults, with a token); at the end of the
\* listing it may leave the token out, hand out an empty one, or still hand
\* out a token, and every page after that one is empty and has these three
\* answers again.
ListVectorsAnswers(st, maxResults, nextToken) ==
    LET start == Min(TokenOffset(nextToken), Len(st))
        full == Min(maxResults, Len(st) - start)
        Page(n) == [i \in 1..n |-> [key |-> st[start + i].key]]
        More(n) == [vectors |-> Page(n), nextToken |-> IntStr(start + n)]
        Last(n) == [vectors |-> Page(n)]
    IN  StoreFaults
          \cup { Return(IF start + full < Len(st) THEN More(full) ELSE Last(full)) }
          \cup { Return(More(maxResults \div 2)) :
                   x \in { y \in {1} : full > maxResults \div 2 } }
          \cup { Return(More(full)) :
                   x \in { y \in {1} : start + full = Len(st) } }
          \cup { Return([vectors |-> Page(full), nextToken |-> <<>>]) :
                   x \in { y \in {1} : start + full = Len(st) } }

\* delete_vectors(keys): the records of these keys are removed; a key the
\* index does not hold is ignored
DeleteVectorsAnswers(st, keys) ==
    { [response |-> f, store |-> st] : f \in StoreFaults }
      \cup { [response |-> Return([ResponseMetadata |-> "200"]),
              store |-> SelectSeq(st, LAMBDA r : r.key \notin KeysOf(keys))] }

\* put_vectors(vectors): each record replaces the record of its key, or is
\* added at the end of the listing
RECURSIVE Upsert(_, _, _)
Upsert(st, vectors, n) ==
    IF n = 0 THEN st
    ELSE LET before == Upsert(st, vectors, n - 1)
             v == vectors[n]
         IN  IF \E i \in 1..Len(before) : before[i].key = v.key
             THEN [i \in 1..Len(before) |->
                      IF before[i].key = v.key THEN v ELSE before[i]]
             ELSE Append(before, v)

\* the same, the vectors appended at once when no key of theirs is held and
\* no two of them share a key
UpsertAll(st, vectors) ==
    LET held == { st[i].key : i \in 1..Len(st) }
        keys == { vectors[i].key : i \in 1..Len(vectors) }
    IN  IF held \cap keys = {} /\ Cardinality(keys) = Len(vectors)
        THEN st \o vectors
        ELSE Upsert(st, vectors, Len(vectors))

PutVectorsAnswers(st, vectors) ==
    { [response |-> f, store |-> st] : f \in StoreFaults }
      \cup { [response |-> Return([ResponseMetadata |-> "200"]),
              store |-> UpsertAll(st, vectors)] }

\* get_vectors(keys, returnData=True, returnMetadata=True): the records held
\* under these keys, in the order of the request; a key the index does not
\* hold is left out
GetVectorsAnswers(st, keys) ==
    LET held == SelectSeq(keys, LAMBDA k : \E i \in 1..Len(st) : st[i].key = k)
        RecordOf(k) == st[CHOOSE i \in 1..Len(st) : st[i].key = k]
    IN  StoreFaults
          \cup { Return([vectors |-> [i \in 1..Len(held) |-> RecordOf(held[i])]]) }

\* query_vectors(queryVector, topK, returnMetadata, returnDistance): up to topK
\* records under the key 'vectors', nearest first.  Which record the index
\* finds nearer is the store's matter: every order is offered, the distances
\* growing with the rank.  A match always carries its key; its metadata and
\* its distance are optional in the response, so beside the answer that
\* carries what was asked for there is the one that carries the keys alone.
QueryVectorsAnswers(st, queryVector, topK, returnMetadata, returnDistance) ==
    LET m == Min(topK, Len(st))
        Orders == { p \in [1..m -> 1..Len(st)] :
                      \A i, j \in 1..m : i /= j => p[i] /= p[j] }
        Match(r, rank, bare) ==
            IF returnMetadata /\ returnDistance /\ ~bare
            THEN [key |-> r.key, metadata |-> r.metadata, distance |-> rank - 1]
            ELSE IF returnMetadata /\ ~bare
            THEN [key |-> r.key, metadata |-> r.metadata]
            ELSE IF returnDistance /\ ~bare
            THEN [key |-> r.key, distance |-> rank - 1]
            ELSE [key |-> r.key]
    IN  StoreFaults
          \cup { Return([vectors |-> [i \in 1..m |-> Match(st[p[i]], i, bare)]]) :
                   p \in Orders, bare \in BOOLEAN }

----------------------------------------------------------------------------
(* src/src/s3_vectors_client.py: the record operations, given the store's answer *)

\* dict.get(key, default)
Get(d, key, default) == IF key \in DOMAIN d THEN d[key] ELSE default

\* S3VectorsClient.insert_documents: the response of put_vectors, or the
\* ClientError again after a print (an error that is no ClientError is not
\* caught at all)
insert_documents(response) ==
    IF response.outcome = "return" THEN response
    ELSE IF response.error = "ClientError" THEN response   \* print, raise
    ELSE response

\* S3VectorsClient.get_documents: response.get('vectors', [])
MutGetDocumentsMatches(response) ==
    IF response.outcome = "return"
    THEN Return(Get(response.value, "matches", <<>>))
    ELSE response

get_documents(response) ==
    IF response.outcome = "return"
    THEN Return(Get(response.value, "vectors", <<>>))
    ELSE IF response.error = "ClientError" THEN response   \* print, raise
    ELSE response

\* S3VectorsClient.search_similar: response.get('matches', [])
search_similar(response) ==
    IF response.outcome = "return"
    THEN Return(Get(response.value, "matches", <<>>))
    ELSE IF response.error = "ClientError" THEN response   \* print, raise
    ELSE response

\* S3VectorsClient.delete_documents: the response, or the ClientError again
\* (an error that is no ClientError is not caught at all)
delete_documents(response) ==
    IF response.outcome = "return" THEN response
    ELSE IF response.error = "ClientError" THEN response   \* print, raise
    ELSE response

----------------------------------------------------------------------------
(* src/webdemo/utils/s3_vectors.py *)

MAX_RESULTS == 1000

\* a store request as the log keeps it
ListCall(maxResults, nextToken, answer) ==
    [api |-> "list_vectors", maxResults |-> maxResults, nextToken |-> nextToken,
     outcome |-> answer.outcome,
     keys |-> IF answer.outcome = "return"
              THEN [i \in 1..Len(answer.value.vectors) |->
                       answer.value.vectors[i].key]
              ELSE <<>>,
     nextTokenOut |-> IF answer.outcome = "return"
                         /\ "nextToken" \in DOMAIN answer.value
                      THEN Some(answer.value.nextToken) ELSE NoneArg]

KeysCall(api, keys, response) ==
    [api |-> api, keys |-> keys, outcome |-> response.outcome]

\* a get_vectors request as the log keeps it, with the records it yielded
GetVectorsCall(keys, returnData, returnMetadata, response) ==
    [api |-> "get_vectors", keys |-> keys, returnData |-> returnData,
     returnMetadata |-> returnMetadata, outcome |-> response.outcome,
     vectors |-> IF response.outcome = "return"
                 THEN Get(response.value, "vectors", <<>>) ELSE <<>>]

\* response.get('nextToken')
GetNextToken(response) ==
    IF "nextToken" \in DOMAIN response THEN Some(response.nextToken) ELSE NoneArg

\* one iteration of the while loop of get_document_count, given the store's
\* answer to its list_vectors request: the locals after it and, when the call
\* ends with it, the value returned
MutCountOnePage(local, answer) ==
    IF answer.outcome = "raise"
    THEN [local |-> local, done |-> TRUE, result |-> Return(0)]
    ELSE [local |-> [next_token |-> GetNextToken(answer.value),
                     all_vectors |-> local.all_vectors \o answer.value.vectors],
          done |-> TRUE,
          result |-> Return(Len(local.all_vectors \o answer.value.vectors))]

\* a handler that returns the records counted before the failure
MutCountStepPartialOnFailure(local, answer) ==
    IF answer.outcome = "raise"
    THEN [local |-> local, done |-> TRUE,
          result |-> Return(Len(local.all_vectors))]
    ELSE LET vectors == Get(answer.value, "vectors", <<>>)
             all_vectors == local.all_vectors \o vectors
             next_token == GetNextToken(answer.value)
         IN  [local |-> [next_token |-> next_token, all_vectors |-> all_vectors],
              done |-> ~Truthy(next_token),
              result |-> Return(Len(all_vectors))]

\* a loop that stops only on an absent token: `if next_token is None`
MutCountStepNoneOnly(local, answer) ==
    IF answer.outcome = "raise"
    THEN [local |-> local, done |-> TRUE, result |-> Return(0)]
    ELSE LET vectors == Get(answer.value, "vectors", <<>>)
             all_vectors == local.all_vectors \o vectors
             next_token == GetNextToken(answer.value)
         IN  [local |-> [next_token |-> next_token, all_vectors |-> all_vectors],
              done |-> next_token.isNone,
              result |-> Return(Len(all_vectors))]

get_document_count_step(local, answer) ==
    IF answer.outcome = "raise"
    THEN \* except Exception: return 0
         [local |-> local, done |-> TRUE, result |-> Return(0)]
    ELSE LET vectors == Get(answer.value, "vectors", <<>>)
             all_vectors == local.all_vectors \o vectors
             next_token == GetNextToken(answer.value)
         IN  [local |-> [next_token |-> next_token, all_vectors |-> all_vectors],
              done |-> ~Truthy(next_token),
              result |-> Return(Len(all_vectors))]

\* delete_all_documents up to its delete request, given the store's answer to
\* list_vectors: the keys to delete, or the value returned at once
delete_all_documents_list(answer) ==
    IF answer.outcome = "raise"
    THEN [done |-> TRUE, result |-> Return(0), keys |-> <<>>]
    ELSE IF answer.value.vectors = <<>>
    THEN [done |-> TRUE, result |-> Return(0), keys |-> <<>>]
    ELSE [done |-> FALSE, result |-> Return(0),
          keys |-> [i \in 1..Len(answer.value.vectors) |->
                       answer.value.vectors[i].key]]

\* the rest of delete_all_documents, given what self.client.delete_documents
\* did
MutDeleteAllCountsStore(keys, deleted) ==
    IF deleted.outcome = "raise" THEN Return(0) ELSE Return(MAX_RESULTS)

delete_all_documents_delete(keys, deleted) ==
    IF deleted.outcome = "raise"
    THEN Return(0)               \* except Exception: return 0
    ELSE Return(Len(keys))

\* add_document whose Document is built without __post_init__
MutAddDocumentNoValidation(content, embedding, u) ==
    Return([key |-> UuidStr(u), content |-> content, embedding |-> embedding])

\* add_document up to its insert request: the Document, or the error of
\* Document.create (no try/except around it)
add_document_create(content, embedding, u) ==
    Document_create(content, Some(embedding), u, <<>>)

\* the rest of add_document, given what self.client.insert_documents did
MutAddDocumentWrongId(doc, content, inserted) ==
    IF inserted.outcome = "raise"
    THEN inserted
    ELSE Return([id |-> <<>>, content |-> content, success |-> TRUE])

add_document_insert(doc, content, inserted) ==
    IF inserted.outcome = "raise"
    THEN inserted                \* no try/except: the error goes to the caller
    ELSE Return([id |-> doc.key, content |-> content, success |-> TRUE])

\* list_documents up to its get request, given the store's answer to
\* list_vectors: the keys to fetch, or the value returned at once
list_documents_list(answer) ==
    IF answer.outcome = "raise"
    THEN [done |-> TRUE, result |-> Return(<<>>), keys |-> <<>>]
    ELSE IF Get(answer.value, "vectors", <<>>) = <<>>
    THEN [done |-> TRUE, result |-> Return(<<>>), keys |-> <<>>]
    ELSE [done |-> FALSE, result |-> Return(<<>>),
          keys |-> [i \in 1..Len(answer.value.vectors) |->
                       answer.value.vectors[i].key]]

\* the rest of list_documents, given what self.client.get_documents(keys) did
MutListDocumentsDropLast(got) ==
    IF got.outcome = "raise"
    THEN Return(<<>>)
    ELSE Return(SubSeq(got.value, 1, Len(got.value) - 1))

list_documents_get(got) ==
    IF got.outcome = "raise"
    THEN Return(<<>>)            \* except Exception: print, return []
    ELSE got

\* an empty dict
EmptyDict == [x \in {} |-> x]

\* search_documents with a content that defaults to the empty string
MutSearchDocumentsContentEmpty(response) ==
    IF response.outcome = "raise"
    THEN Return(<<>>)
    ELSE LET results == Get(response.value, "vectors", <<>>)
         IN  Return([i \in 1..Len(results) |->
                        [key |-> Get(results[i], "key", NoneArg),
                         content |-> Get(Get(results[i], "metadata", EmptyDict),
                                         "content", ""),
                         distance |-> Get(results[i], "distance", NoneArg),
                         metadata |-> Get(results[i], "metadata", EmptyDict)]])

\* search_documents, given the store's answer to query_vectors
search_documents(response) ==
    IF response.outcome = "raise"
    THEN Return(<<>>)            \* except Exception: print, return []
    ELSE LET results == Get(response.value, "vectors", <<>>)
         IN  Return([i \in 1..Len(results) |->
                        [key |-> Get(results[i], "key", NoneArg),
                         content |-> Get(Get(results[i], "metadata", EmptyDict),
                                         "content", "N/A"),
                         distance |-> Get(results[i], "distance", NoneArg),
                         metadata |-> Get(results[i], "metadata", EmptyDict)]])

\* delete_document, given what self.client.delete_documents([key]) did
delete_document(deleted) ==
    IF deleted.outcome = "raise"
    THEN Return(FALSE)           \* except Exception: return False
    ELSE Return(TRUE)

----------------------------------------------------------------------------
(* The manager driven by its callers, beside another writer to the index *)

NoLocal == [next_token |-> NoneArg, all_vectors |-> <<>>, keys |-> <<>>]

NoRet == [op |-> "none"]

\* a completed operation as the log keeps it: its name, its arguments and
\* what it returned or raised
Completed(op, args, result) == [op |-> op, args |-> args, result |-> result]

\* s3_manager.get_document_count(): entry
GetDocumentCountBegin ==
    /\ mPc = "idle"
    /\ nOps < MaxOps
    /\ mPc' = "get_document_count"
    /\ mLocal' = [next_token |-> NoneArg, all_vectors |-> <<>>]
    /\ mCalls' = <<>>
    /\ mN' = Len(store)
    /\ mWritten' = FALSE
    /\ nOps' = nOps + 1
    /\ UNCHANGED <<store, mRet, mLog>>
    /\ UNCHANGED mgrOthers

\* one list_vectors request of the loop, and what follows it
GetDocumentCountList ==
    /\ mPc = "get_document_count"
    /\ Len(mCalls) < MaxPages
    /\ LET token == IF Truthy(mLocal.next_token)
                    THEN mLocal.next_token ELSE NoneArg
       IN  \E answer \in ListVectorsAnswers(store, MAX_RESULTS, token) :
               LET step == get_document_count_step(mLocal, answer) IN
               /\ mCalls' = Append(mCalls, ListCall(MAX_RESULTS, token, answer))
               /\ mLocal' = IF step.done THEN NoLocal ELSE step.local
               /\ mPc' = IF step.done THEN "idle" ELSE mPc
               /\ mRet' = IF step.done
                          THEN [op |-> "get_document_count",
                                result |-> step.result]
                          ELSE mRet
               /\ mLog' = IF step.done
                          THEN Append(mLog, Completed("get_document_count",
                                                      EmptyDict, step.result))
                          ELSE mLog
    /\ UNCHANGED <<store, mN, mWritten, nOps>>
    /\ UNCHANGED mgrOthers

\* s3_manager.delete_all_documents(): the list_vectors request
DeleteAllDocumentsList ==
    /\ mPc = "idle"
    /\ nOps < MaxOps
    /\ \E answer \in ListVectorsAnswers(store, MAX_RESULTS, NoneArg) :
           LET step == delete_all_documents_list(answer) IN
           /\ mCalls' = <<ListCall(MAX_RESULTS, NoneArg, answer)>>
           /\ mLocal' = IF step.done THEN NoLocal ELSE [keys |-> step.keys]
           /\ mPc' = IF step.done THEN "idle" ELSE "delete_all_documents"
           /\ mRet' = IF step.done
                      THEN [op |-> "delete_all_documents", result |-> step.result]
                      ELSE mRet
           /\ mLog' = IF step.done
                      THEN Append(mLog, Completed("delete_all_documents",
                                                  EmptyDict, step.result))
                      ELSE mLog
    /\ mN' = Len(store)
    /\ mWritten' = FALSE
    /\ nOps' = nOps + 1
    /\ UNCHANGED store
    /\ UNCHANGED mgrOthers

\* s3_manager.delete_all_documents(): self.client.delete_documents(keys)
DeleteAllDocumentsDelete ==
    /\ mPc = "delete_all_documents"
    /\ \E answer \in DeleteVectorsAnswers(store,
                        [i \in 1..Len(mLocal.keys) |-> [key |-> mLocal.keys[i]]]) :
           LET deleted == delete_documents(answer.response) IN
           /\ store' = answer.store
           /\ mCalls' = Append(mCalls,
                               KeysCall("delete_vectors", mLocal.keys,
                                        answer.response))
           /\ mRet' = [op |-> "delete_all_documents",
                       result |-> delete_all_documents_delete(mLocal.keys,
                                                              deleted)]
           /\ mLog' = Append(mLog, Completed("delete_all_documents", EmptyDict,
                                             mRet'.result))
    /\ mLocal' = NoLocal
    /\ mPc' = "idle"
    /\ UNCHANGED <<mN, mWritten, nOps>>
    /\ UNCHANGED mgrOthers

\* another client of the index puts a record or deletes the first one while
\* an operation of the manager is in flight
OtherWriter ==
    /\ mPc /= "idle"
    /\ ~mWritten
    /\ \/ store' = Append(store, PopulatedRecord(Len(store) + 1))
       \/ /\ store /= <<>>
          /\ store' = Tail(store)
    /\ mWritten' = TRUE
    /\ UNCHANGED <<mPc, mLocal, mCalls, mRet, mN, mLog, nOps>>
    /\ UNCHANGED mgrOthers

\* index sizes around the page size of 1000
PagingSizes == {0, 1, 1000, 1001, 2500}

MgrRest ==
    /\ mPc = "idle"
    /\ mLocal = NoLocal
    /\ mCalls = <<>>
    /\ mRet = NoRet
    /\ mLog = <<>>
    /\ mN = 0
    /\ mWritten = FALSE

\* a behaviour is one operation on an index of one of these sizes
PagingInit ==
    /\ store \in { PopulatedStore(n) : n \in PagingSizes }
    /\ MgrRest
    /\ nOps = MaxOps - 1

PagingNext ==
    \/ GetDocumentCountBegin
    \/ GetDocumentCountList
    \/ DeleteAllDocumentsList
    \/ DeleteAllDocumentsDelete
    \/ OtherWriter

----------------------------------------------------------------------------
(* The record operations of the client and of the manager on a small index *)

\* the record of the u-th document put into the index
StoredRecord(u) ==
    to_s3_vector_format(
        Document_create(IF u % 2 = 0 THEN "hello" ELSE "Convert to S3 format",
                        Some(RandomVector(EMBEDDING_DIM, u)), Uuid4(u), <<>>).value)

SmallStores == { [i \in 1..n |-> StoredRecord(i)] : n \in 0..MaxUuid }

\* the keys a caller asks for: those of the records above and one more
KeyLists ==
    { <<StoredRecord(u).key>> : u \in 1..(MaxUuid + 1) }
      \cup { <<StoredRecord(2).key, StoredRecord(1).key>> }

\* the documents a caller inserts
DocumentLists ==
    { <<StoredRecord(u)>> : u \in 1..(MaxUuid + 1) }
      \cup { <<StoredRecord(MaxUuid + 1), StoredRecord(1)>> }

QueryVectors == { RandomVector(EMBEDDING_DIM, seed) : seed \in 0..1 }

\* the embeddings given to add_document: of 128 components, and one short
AddEmbeddings ==
    { RandomVector(EMBEDDING_DIM, 1), RandomVector(EMBEDDING_DIM - 1, 1) }

\* limit of a listing: one record, two, or the default
Limits == {1, 2, 10}

\* topK of a search: one result, or the default
TopKs == {1, 10}

\* a query_vectors request as the log keeps it, with the response it got
QueryCall(queryVector, topK, returnMetadata, returnDistance, response) ==
    [api |-> "query_vectors", queryVector |-> queryVector, topK |-> topK,
     returnMetadata |-> returnMetadata, returnDistance |-> returnDistance,
     outcome |-> response.outcome,
     response |-> IF response.outcome = "return" THEN response.value
                  ELSE EmptyDict]

\* client.insert_documents(documents)
InsertDocuments ==
    /\ mPc = "idle"
    /\ nOps < MaxOps
    /\ \E documents \in DocumentLists :
       \E answer \in PutVectorsAnswers(store, documents) :
           /\ store' = answer.store
           /\ mCalls' = <<KeysCall("put_vectors",
                                   [i \in 1..Len(documents) |-> documents[i].key],
                                   answer.response)>>
           /\ mRet' = [op |-> "insert_documents",
                       result |-> insert_documents(answer.response)]
           /\ mLog' = Append(mLog, Completed("insert_documents",
                                             [documents |-> documents],
                                             mRet'.result))
    /\ mN' = Len(store)
    /\ mWritten' = FALSE
    /\ nOps' = nOps + 1
    /\ UNCHANGED <<mPc, mLocal>>
    /\ UNCHANGED mgrOthers

\* client.get_documents(keys)
GetDocuments ==
    /\ mPc = "idle"
    /\ nOps < MaxOps
    /\ \E keys \in KeyLists :
       \E response \in GetVectorsAnswers(store, keys) :
           /\ mCalls' = <<GetVectorsCall(keys, TRUE, TRUE, response)>>
           /\ mRet' = [op |-> "get_documents", result |-> get_documents(response)]
           /\ mLog' = Append(mLog, Completed("get_documents", [keys |-> keys],
                                             mRet'.result))
    /\ mN' = Len(store)
    /\ mWritten' = FALSE
    /\ nOps' = nOps + 1
    /\ UNCHANGED <<store, mPc, mLocal>>
    /\ UNCHANGED mgrOthers

\* client.search_similar(embedding, k)
SearchSimilar ==
    /\ mPc = "idle"
    /\ nOps < MaxOps
    /\ \E embedding \in QueryVectors, k \in TopKs :
       \E response \in QueryVectorsAnswers(store, embedding, k, FALSE, FALSE) :
           /\ mCalls' = <<QueryCall(embedding, k, FALSE, FALSE, response)>>
           /\ mRet' = [op |-> "search_similar", result |-> search_similar(response)]
           /\ mLog' = Append(mLog, Completed("search_similar",
                                             [embedding |-> embedding, k |-> k],
                                             mRet'.result))
    /\ mN' = Len(store)
    /\ mWritten' = FALSE
    /\ nOps' = nOps + 1
    /\ UNCHANGED <<store, mPc, mLocal>>
    /\ UNCHANGED mgrOthers

\* client.delete_documents(keys)
DeleteDocuments ==
    /\ mPc = "idle"
    /\ nOps < MaxOps
    /\ \E keys \in KeyLists :
       \E answer \in DeleteVectorsAnswers(store,
                          [i \in 1..Len(keys) |-> [key |-> keys[i]]]) :
           /\ store' = answer.store
           /\ mCalls' = <<KeysCall("delete_vectors", keys, answer.response)>>
           /\ mRet' = [op |-> "delete_documents",
                       result |-> delete_documents(answer.response)]
           /\ mLog' = Append(mLog, Completed("delete_documents", [keys |-> keys],
                                             mRet'.result))
    /\ mN' = Len(store)
    /\ mWritten' = FALSE
    /\ nOps' = nOps + 1
    /\ UNCHANGED <<mPc, mLocal>>
    /\ UNCHANGED mgrOthers

\* s3_manager.add_document(content, embedding): no store request is made when
\* Document.create raises
AddDocument ==
    /\ mPc = "idle"
    /\ nOps < MaxOps
    /\ \E content \in Contents, embedding \in AddEmbeddings,
          u \in 1..(MaxUuid + 1) :
           /\ LET created == add_document_create(content, embedding, Uuid4(u))
              IN  IF created.outcome = "raise"
                  THEN /\ store' = store
                       /\ mCalls' = <<>>
                       /\ mRet' = [op |-> "add_document", result |-> created]
                  ELSE LET vectors == <<to_s3_vector_format(created.value)>> IN
                       \E answer \in PutVectorsAnswers(store, vectors) :
                           /\ store' = answer.store
                           /\ mCalls' = <<KeysCall("put_vectors",
                                                   <<created.value.key>>,
                                                   answer.response)>>
                           /\ mRet' = [op |-> "add_document",
                                       result |-> add_document_insert(
                                                      created.value, content,
                                                      insert_documents(
                                                          answer.response))]
           /\ mLog' = Append(mLog, Completed("add_document",
                                             [content |-> content,
                                              embedding |-> embedding],
                                             mRet'.result))
    /\ mN' = Len(store)
    /\ mWritten' = FALSE
    /\ nOps' = nOps + 1
    /\ UNCHANGED <<mPc, mLocal>>
    /\ UNCHANGED mgrOthers

\* s3_manager.search_documents(query_embedding, top_k)
SearchDocuments ==
    /\ mPc = "idle"
    /\ nOps < MaxOps
    /\ \E query_embedding \in QueryVectors, top_k \in TopKs :
       \E response \in QueryVectorsAnswers(store, query_embedding, top_k,
                                           TRUE, TRUE) :
           /\ mCalls' = <<QueryCall(query_embedding, top_k, TRUE, TRUE,
                                    response)>>
           /\ mRet' = [op |-> "search_documents",
                       result |-> search_documents(response)]
           /\ mLog' = Append(mLog, Completed("search_documents",
                                             [query_embedding |-> query_embedding,
                                              top_k |-> top_k],
                                             mRet'.result))
    /\ mN' = Len(store)
    /\ mWritten' = FALSE
    /\ nOps' = nOps + 1
    /\ UNCHANGED <<store, mPc, mLocal>>
    /\ UNCHANGED mgrOthers

\* s3_manager.list_documents(limit): the list_vectors request and, when it
\* yields keys, self.client.get_documents(keys)
ListDocuments ==
    /\ mPc = "idle"
    /\ nOps < MaxOps
    /\ \E limit \in Limits :
       \E answer \in ListVectorsAnswers(store, limit, NoneArg) :
           LET step == list_documents_list(answer) IN
           /\ IF step.done
              THEN /\ mCalls' = <<ListCall(limit, NoneArg, answer)>>
                   /\ mRet' = [op |-> "list_documents", result |-> step.result]
              ELSE \E response \in GetVectorsAnswers(store, step.keys) :
                       /\ mCalls' = <<ListCall(limit, NoneArg, answer),
                                      GetVectorsCall(step.keys, TRUE, TRUE,
                                                     response)>>
                       /\ mRet' = [op |-> "list_documents",
                                   result |-> list_documents_get(
                                                  get_documents(response))]
           /\ mLog' = Append(mLog, Completed("list_documents", [limit |-> limit],
                                             mRet'.result))
    /\ mN' = Len(store)
    /\ mWritten' = FALSE
    /\ nOps' = nOps + 1
    /\ UNCHANGED <<store, mPc, mLocal>>
    /\ UNCHANGED mgrOthers

\* s3_manager.delete_document(key)
DeleteDocument ==
    /\ mPc = "idle"
    /\ nOps < MaxOps
    /\ \E u \in 1..(MaxUuid + 1) :
       LET key == StoredRecord(u).key IN
       \E answer \in DeleteVectorsAnswers(store, <<[key |-> key]>>) :
           /\ store' = answer.store
           /\ mCalls' = <<KeysCall("delete_vectors", <<key>>, answer.response)>>
           /\ mRet' = [op |-> "delete_document",
                       result |-> delete_document(
                                      delete_documents(answer.response))]
           /\ mLog' = Append(mLog, Completed("delete_document", [key |-> key],
                                             mRet'.result))
    /\ mN' = Len(store)
    /\ mWritten' = FALSE
    /\ nOps' = nOps + 1
    /\ UNCHANGED <<mPc, mLocal>>
    /\ UNCHANGED mgrOthers

StoreInit ==
    /\ store \in SmallStores
    /\ MgrRest
    /\ nOps = 0

\* two operations in a row: add_document and delete_document
AddInit ==
    /\ store \in SmallStores
    /\ MgrRest
    /\ nOps = MaxOps - 2

AddNext ==
    \/ AddDocument
    \/ DeleteDocument

\* three operations in a row: the client inserts, fetches and deletes
InsertGetInit ==
    /\ store \in SmallStores
    /\ MgrRest
    /\ nOps = MaxOps - 3

InsertGetNext ==
    \/ InsertDocuments
    \/ GetDocuments
    \/ DeleteDocuments

StoreNext ==
    \/ InsertDocuments
    \/ GetDocuments
    \/ SearchSimilar
    \/ DeleteDocuments
    \/ AddDocument
    \/ ListDocuments
    \/ SearchDocuments
    \/ DeleteDocument
    \/ DeleteAllDocumentsList
    \/ DeleteAllDocumentsDelete

----------------------------------------------------------------------------
(* src/tests/test_performance_load.py: the bulk load *)

TOTAL_RECORDS == 1000

BATCH_SIZE == 500

NUM_THREADS == 4

\* uuid.uuid4().hex[:8] of record i in a run with draw u
LoadHex(u, i) == (u * (i + 1)) % 16

\* generate_batch(batch_num, size): the vectors of a batch.  A key
\* f"perf-test-{hex}-{record_id}" is kept as its three parts, the metadata
\* by its content and batch; the random embedding and the timestamp, which
\* nothing reads, are left out.
generate_batch(batch_num, size, u) ==
    [n \in 1..size |->
        LET i == n - 1
            record_id == batch_num * BATCH_SIZE + i
        IN  [key |-> [prefix |-> "perf-test", hex |-> LoadHex(u, record_id),
                      record_id |-> record_id],
             metadata |-> [content |-> record_id, batch |-> batch_num]]]

\* upload_batch(client, batch_num, size), given the answer of put_vectors:
\* the result dict (without the elapsed time, which is only printed)
upload_batch(batch_num, size, response) ==
    IF response.outcome = "return"
    THEN [batch |-> batch_num, size |-> size, success |-> TRUE]
    ELSE [batch |-> batch_num, size |-> size, success |-> FALSE,
          error |-> response.msg]          \* except Exception as e: str(e)

\* main(): num_batches = (TOTAL_RECORDS + BATCH_SIZE - 1) // BATCH_SIZE
num_batches(total) == (total + BATCH_SIZE - 1) \div BATCH_SIZE

\* a batch of BATCH_SIZE records whatever is left
MutBatchSizeFull(total, i) == BATCH_SIZE

\* main(): batch_size = min(BATCH_SIZE, TOTAL_RECORDS - i * BATCH_SIZE)
batch_size(total, i) == Min(BATCH_SIZE, total - i * BATCH_SIZE)

RECURSIVE SumSizes(_, _)
\* sum(r['size'] for r in rs), over the first n
SumSizes(rs, n) == IF n = 0 THEN 0 ELSE SumSizes(rs, n - 1) + rs[n].size

\* the statistics that count every result, failed or not
MutStatisticsAllResults(results) ==
    [successful_batches |-> Len(results),
     total_uploaded |-> SumSizes(results, Len(results))]

\* main(): successful_batches = [r for r in results if r['success']],
\* total_uploaded = sum(r['size'] for r in successful_batches)
statistics(results) ==
    LET successful_batches == SelectSeq(results, LAMBDA r : r.success)
    IN  [successful_batches |-> Len(successful_batches),
         total_uploaded |-> SumSizes(successful_batches, Len(successful_batches))]

\* the numbers of records a run is asked to load: the module's own, and
\* others around the batch size
Totals == {1, BATCH_SIZE, BATCH_SIZE + 1, TOTAL_RECORDS, TOTAL_RECORDS + 1}

NoStats == [successful_batches |-> 0, total_uploaded |-> 0]

\* the draws of random numbers offered to a run
LoadDraws == {1, 2}

\* main() after ensure_index_exists and clean_index: the index empty, no
\* batch submitted
LoadInit ==
    /\ lTotal \in Totals
    /\ lPc = "submit"
    /\ lFutures = <<>>
    /\ lResults = <<>>
    /\ lStats = NoStats
    /\ lDraw \in LoadDraws
    /\ store = <<>>
    /\ MgrRest
    /\ nOps = 0

\* main(): executor.submit(upload_batch, client, i, batch_size), for the next i
LoadSubmit ==
    /\ lPc = "submit"
    /\ LET i == Len(lFutures) IN
       /\ lFutures' = Append(lFutures,
                             [batch |-> i, size |-> batch_size(lTotal, i),
                              state |-> "queued"])
       /\ lPc' = IF i + 1 < num_batches(lTotal) THEN "submit" ELSE "collect"
    /\ UNCHANGED <<lTotal, lResults, lStats, lDraw, store>>
    /\ UNCHANGED loadOthers

\* the number of uploads under way
InFlight(futures) ==
    Cardinality({ j \in 1..Len(futures) : futures[j].state = "running" })

\* an executor that starts a thread for every batch
MutWorkerAlwaysFree(futures) == TRUE

\* ThreadPoolExecutor(max_workers=NUM_THREADS): a worker thread is free, or
\* can still be started
WorkerFree(futures) == InFlight(futures) < NUM_THREADS

\* a worker thread takes the batch that waits longest in the executor's
\* queue and begins upload_batch
LoadStart ==
    /\ WorkerFree(lFutures)
    /\ \E j \in 1..Len(lFutures) :
          /\ lFutures[j].state = "queued"
          /\ \A k \in 1..(j - 1) : lFutures[k].state /= "queued"
          /\ lFutures' =
                [lFutures EXCEPT ![j] =
                    [batch |-> @.batch, size |-> @.size,
                     state |-> "running", uploads |-> 0]]
    /\ UNCHANGED <<lTotal, lPc, lResults, lStats, lDraw, store>>
    /\ UNCHANGED loadOthers

\* the worker generates the vectors of its batch, makes its put_vectors
\* request and returns the result of upload_batch
LoadUpload ==
    /\ \E j \in 1..Len(lFutures) :
          /\ lFutures[j].state = "running"
          /\ LET vectors == generate_batch(lFutures[j].batch,
                                           lFutures[j].size, lDraw)
             IN  \E answer \in PutVectorsAnswers(store, vectors) :
                     /\ store' = answer.store
                     /\ lFutures' =
                           [lFutures EXCEPT ![j] =
                               [batch |-> @.batch, size |-> @.size,
                                state |-> "done", uploads |-> @.uploads + 1,
                                keys |-> [n \in 1..Len(vectors) |->
                                             vectors[n].key],
                                result |-> upload_batch(@.batch, @.size,
                                                        answer.response)]]
    /\ UNCHANGED <<lTotal, lPc, lResults, lStats, lDraw>>
    /\ UNCHANGED loadOthers

\* main(): for future in as_completed(futures): results.append(future.result())
LoadCollect ==
    /\ lPc = "collect"
    /\ \E j \in 1..Len(lFutures) :
          /\ lFutures[j].state = "done"
          /\ lResults' = Append(lResults, lFutures[j].result)
          /\ lFutures' = [lFutures EXCEPT ![j].state = "yielded"]
    /\ UNCHANGED <<lTotal, lPc, lStats, lDraw, store>>
    /\ UNCHANGED loadOthers

\* main(): every future yielded, the statistics are calculated
LoadStatistics ==
    /\ lPc = "collect"
    /\ \A j \in 1..Len(lFutures) : lFutures[j].state = "yielded"
    /\ lStats' = statistics(lResults)
    /\ lPc' = "done"
    /\ UNCHANGED <<lTotal, lFutures, lResults, lDraw, store>>
    /\ UNCHANGED loadOthers

LoadNext ==
    LoadSubmit \/ LoadStart \/ LoadUpload \/ LoadCollect \/ LoadStatistics

\* a load of one batch more than there are worker threads
PoolInit ==
    /\ lTotal = NUM_THREADS * BATCH_SIZE + 1
    /\ lPc = "submit"
    /\ lFutures = <<>>
    /\ lResults = <<>>
    /\ lStats = NoStats
    /\ lDraw \in LoadDraws
    /\ store = <<>>
    /\ MgrRest
    /\ nOps = 0

\* the executor's part of that load: the submissions and the workers (the
\* collection of the results changes nothing the executor reads)
PoolNext == LoadSubmit \/ LoadStart \/ LoadUpload

----------------------------------------------------------------------------
(* Specifications: one per component, the other components at rest *)

LcRest ==
    /\ bucketExists = FALSE
    /\ indexExists = FALSE
    /\ lcHist = <<>>
    /\ lcPc = "idle"
    /\ lcPending = NoPending
    /\ lcNow = 0

StoreRest ==
    /\ store = <<>>
    /\ MgrRest
    /\ nOps = 0

LoadRest ==
    /\ lTotal = TOTAL_RECORDS
    /\ lPc = "submit"
    /\ lFutures = <<>>
    /\ lResults = <<>>
    /\ lStats = NoStats
    /\ lDraw = 1

InitDoc == DocInit /\ EmbInit /\ SimInit /\ LcRest /\ StoreRest /\ LoadRest

InitLifecycle == DocInit /\ EmbInit /\ SimInit /\ LcInit /\ StoreRest /\ LoadRest

InitPaging == DocInit /\ EmbInit /\ SimInit /\ LcRest /\ PagingInit /\ LoadRest

InitStore == DocInit /\ EmbInit /\ SimInit /\ LcRest /\ StoreInit /\ LoadRest

InitAdd == DocInit /\ EmbInit /\ SimInit /\ LcRest /\ AddInit /\ LoadRest

InitInsertGet == DocInit /\ EmbInit /\ SimInit /\ LcRest /\ InsertGetInit /\ LoadRest

InitLoad == DocInit /\ EmbInit /\ SimInit /\ LcRest /\ LoadInit

InitPool == DocInit /\ EmbInit /\ SimInit /\ LcRest /\ PoolInit

SpecDoc == InitDoc /\ [][DocNext]_vars

SpecEmbed == InitDoc /\ [][EmbNext]_vars

SpecSim == InitDoc /\ [][SimNext]_vars

SpecLifecycle == InitLifecycle /\ [][LcNext]_vars

SpecPaging == InitPaging /\ [][PagingNext]_vars

SpecStore == InitStore /\ [][StoreNext]_vars

SpecAdd == InitAdd /\ [][AddNext]_vars

SpecInsertGet == InitInsertGet /\ [][InsertGetNext]_vars

SpecLoad == InitLoad /\ [][LoadNext]_vars

SpecPool == InitPool /\ [][PoolNext]_vars

----------------------------------------------------------------------------
(* Properties of the Document model *)

\* C1: a construction whose embedding length is not 128 (the constructor, or
\* Document.create with a caller-supplied embedding) raises a ValueError whose
\* message ends with the actual length, and returns no Document.
C1_DimensionError ==
    (dIn.op \in {"Document", "create"} /\ Len(dIn.embedding) /= 128) =>
        /\ dOut.outcome = "raise"
        /\ dOut.error = "ValueError"
        /\ Head(dOut.msg) = "Embedding must be 128 dimensions, got "
        /\ ParseInt(Tail(dOut.msg)) = Len(dIn.embedding)

C1_Witness ==
    /\ dIn.op = "create"
    /\ Len(dIn.embedding) = 127
    /\ dOut.outcome = "raise"

\* C2: Document.create(c, e) with len(e) = 128 succeeds, and the store record of
\* the document carries e element for element, c as metadata.content and the
\* document's key.
C2_RoundTrip ==
    (dIn.op = "create" /\ Len(dIn.embedding) = 128) =>
        /\ dOut.outcome = "return"
        /\ dOut.value.embedding = dIn.embedding
        /\ dOut.value.content = dIn.content
        /\ dRec /= NoRec =>
              /\ Len(dRec.data.float32) = 128
              /\ \A i \in 1..128 : dRec.data.float32[i] = dIn.embedding[i]
              /\ dRec.metadata.content = dIn.content
              /\ dRec.key = dOut.value.key
              /\ dRec.key = dIn.key

C2_Witness ==
    /\ dIn.op = "create"
    /\ Len(dIn.embedding) = 128
    /\ dIn.embedding[1] /= dIn.embedding[128]
    /\ dRec /= NoRec

----------------------------------------------------------------------------
(* Properties of the embedding adapter *)

\* C6: generate_embedding never raises; when the remote call fails it returns
\* a locally generated vector of 128 components in [0,1), and every completed
\* call returns a vector of 128 components.
C6_NoPropagation ==
    eIn.op = "generate_embedding" =>
        /\ eOut.outcome = "return"
        /\ Len(eOut.value) = 128
        /\ eApi = "raise" =>
              \A i \in 1..128 : eOut.value[i] >= 0 /\ eOut.value[i] < Unit

C6_Witness ==
    /\ eIn.op = "generate_embedding"
    /\ eApi = "raise"
    /\ eOut.outcome = "return"
    /\ Len(eOut.value) = 128

\* C7: generate_embeddings returns one vector of 128 components per input
\* text, in input order: the service's vector for the i-th text when the remote
\* call succeeds, a fallback vector per text when it fails; it never raises.
C7_CountAndOrder ==
    eIn.op = "generate_embeddings" =>
        /\ eOut.outcome = "return"
        /\ Len(eOut.value) = Len(eIn.texts)
        /\ \A i \in 1..Len(eIn.texts) :
              /\ Len(eOut.value[i]) = 128
              /\ eApi = "return" => eOut.value[i] = ApiEmbedding(eIn.texts[i], 128)
              /\ eApi = "raise" =>
                    \A j \in 1..128 : eOut.value[i][j] >= 0 /\ eOut.value[i][j] < Unit

C7_Witness ==
    /\ eIn.op = "generate_embeddings"
    /\ Len(eIn.texts) = 3
    /\ eIn.texts[1] /= eIn.texts[2]
    /\ eApi = "raise"
    /\ eOut.outcome = "return"
    /\ Len(eOut.value) = 3

----------------------------------------------------------------------------
(* Properties of the similarity utilities *)

AllZero(v) == \A i \in 1..Len(v) : v[i] = 0

\* C10: cosine_similarity of two vectors of the same length returns exactly
\* 0.0 whenever the first, the second or both have zero magnitude, and no call
\* divides by zero.
C10_ZeroMagnitude ==
    (sIn.op = "cosine_similarity" /\ Len(sIn.vec1) = Len(sIn.vec2)) =>
        /\ sOut.outcome = "return"
        /\ sOut.value.finite
        /\ (AllZero(sIn.vec1) \/ AllZero(sIn.vec2)) => sOut.value = Zero

C10_Witness ==
    /\ sIn.op = "cosine_similarity"
    /\ ~AllZero(sIn.vec1)
    /\ AllZero(sIn.vec2)
    /\ sOut.outcome = "return"
    /\ sOut.value = Zero

\* a <= b for two floats
FLeq(a, b) == a.finite /\ b.finite /\ ~FLess(b, a)

\* C11: cosine_similarity(v, v) is exactly 1.0 for every vector v that is not
\* the zero vector, and cosine_similarity(a, b) lies between -1 and 1 for all
\* vectors a and b of the same length.
C11_SelfSimilarityAndRange ==
    (sIn.op = "cosine_similarity" /\ Len(sIn.vec1) = Len(sIn.vec2)) =>
        /\ sOut.outcome = "return"
        /\ (sIn.vec1 = sIn.vec2 /\ ~AllZero(sIn.vec1)) =>
              sOut.value = FromInt(1)
        /\ FLeq(FromInt(-1), sOut.value)
        /\ FLeq(sOut.value, FromInt(1))

\* a vector that is not zero, compared with itself, and a result other than 1.0
C11_Witness ==
    /\ sIn.op = "cosine_similarity"
    /\ sIn.vec1 = sIn.vec2
    /\ ~AllZero(sIn.vec1)
    /\ sOut.outcome = "return"
    /\ sOut.value /= FromInt(1)

\* C12: cosine_similarity_percentage(a, b) is (cosine_similarity(a, b) + 1) / 2
\* * 100: 0 for similarity -1, 50 for 0 and 100 for 1, no smaller than the
\* percentage of any pair of smaller similarity, between 0 and 100, and 50
\* when a or b has zero magnitude.
C12_Percentage ==
    (sIn.op = "cosine_similarity_percentage" /\ Len(sIn.vec1) = Len(sIn.vec2)) =>
        LET c == cosine_similarity(sIn.vec1, sIn.vec2).value
            p == sOut.value
        IN  /\ sOut.outcome = "return"
            /\ p = FMul(FDiv(FAdd(c, FromInt(1)), FromInt(2)), FromInt(100))
            /\ c = FromInt(-1) => p = Zero
            /\ c = Zero => p = FromInt(50)
            /\ c = FromInt(1) => p = FromInt(100)
            /\ \A u \in SimVectors(SimDim), v \in SimVectors(SimDim) :
                  FLeq(cosine_similarity(u, v).value, c) =>
                      FLeq(cosine_similarity_percentage(u, v).value, p)
            /\ FLeq(Zero, p)
            /\ FLeq(p, FromInt(100))
            /\ (AllZero(sIn.vec1) \/ AllZero(sIn.vec2)) => p = FromInt(50)

\* a percentage below 0
C12_Witness ==
    /\ sIn.op = "cosine_similarity_percentage"
    /\ Len(sIn.vec1) = Len(sIn.vec2)
    /\ sOut.outcome = "return"
    /\ FLess(sOut.value, Zero)

\* the positions of the candidates that carry an embedding
Carrying(docs) ==
    { i \in 1..Len(docs) :
        "data" \in DOMAIN docs[i] /\ "float32" \in DOMAIN docs[i].data }

\* C9: rank_by_similarity(q, candidates, k), k >= 0, returns the first k
\* entries of the descending ranking of the candidates that carry an
\* embedding: min(k, number of such candidates) entries, of non-increasing
\* score, each a candidate with an embedding paired with its cosine similarity
\* to q, no candidate more often than the input holds it, and no omitted
\* candidate scoring above the last entry; it never raises.
C9_Ranking ==
    sIn.op = "rank_by_similarity" =>
        LET q == sIn.query_vector
            docs == sIn.documents
            k == sIn.top_k
            r == sOut.value
            carrying == Carrying(docs)
            scores == [j \in carrying |->
                          cosine_similarity(q, docs[j].data.float32).value]
            score(j) == scores[j]
            inResult(d) == Cardinality({ i \in 1..Len(r) : r[i][1] = d })
            inInput(d) == Cardinality({ j \in carrying : docs[j] = d })
        IN  /\ sOut.outcome = "return"
            /\ Len(r) <= k
            /\ Len(r) = Min(k, Cardinality(carrying))
            /\ \A i \in 1..(Len(r) - 1) : ~ScoreLess(r[i][2], r[i + 1][2])
            /\ \A i \in 1..Len(r) :
                  \E j \in carrying : r[i][1] = docs[j] /\ r[i][2] = score(j)
            /\ \A j \in carrying :
                  /\ inResult(docs[j]) <= inInput(docs[j])
                  /\ inResult(docs[j]) < inInput(docs[j]) =>
                        /\ Len(r) = k
                        /\ k > 0 => ~ScoreLess(r[k][2], score(j))

C9_Witness ==
    /\ sIn.op = "rank_by_similarity"
    /\ Len(sIn.documents) = 3
    /\ Carrying(sIn.documents) = {1, 3}
    /\ sIn.top_k = 1
    /\ sOut.outcome = "return"
    /\ Len(sOut.value) = 1
    /\ sOut.value[1][1] = sIn.documents[3]
    /\ ScoreLess(cosine_similarity(sIn.query_vector,
                                   sIn.documents[1].data.float32).value,
                 sOut.value[1][2])

----------------------------------------------------------------------------
(* Properties of bucket and index creation *)

IsAlreadyExists(result) ==
    /\ result.outcome = "return"
    /\ DOMAIN result.value = {"Status"}
    /\ result.value.Status = "AlreadyExists"

\* the store's answer is an "already exists" / conflict error
IsConflict(answer) ==
    /\ answer.outcome = "raise"
    /\ answer.error = "ClientError"
    /\ answer.msg \in {"BucketAlreadyExists", "IndexAlreadyExists",
                        "ConflictException"}

\* C5: create_bucket and create_index return {'Status': 'AlreadyExists'} when
\* the store answers with an already-exists/conflict error, and raise every
\* other store error unchanged; so a call that follows a successful one never
\* fails because the bucket or index already exists.
C5_IdempotentCreate ==
    \A j \in 1..Len(lcHist) :
        LET h == lcHist[j] IN
        /\ IsConflict(h.answer) => IsAlreadyExists(h.result)
        /\ (h.answer.outcome = "raise" /\ ~IsConflict(h.answer)) =>
              h.result = h.answer
        /\ h.answer.outcome = "return" => h.result = h.answer
        /\ \A i \in 1..(j - 1) :
              (lcHist[i].op = h.op /\ lcHist[i].result.outcome = "return"
                  /\ h.result.outcome = "raise") => ~IsConflict(h.answer)

C5_Witness ==
    /\ Len(lcHist) = 3
    /\ lcHist[1].op = "create_bucket"
    /\ lcHist[1].answer.outcome = "return"
    /\ lcHist[2].op = "create_bucket"
    /\ IsAlreadyExists(lcHist[2].result)
    /\ lcHist[3].op = "create_bucket"
    /\ IsAlreadyExists(lcHist[3].result)

----------------------------------------------------------------------------
(* Properties of the manager's listing operations *)

NoFault(calls) == \A i \in 1..Len(calls) : calls[i].outcome = "return"

\* the store filled every page: min(1000, records left) keys
FullPages(calls, n) ==
    \A i \in 1..Len(calls) :
        calls[i].api = "list_vectors" =>
            Len(calls[i].keys) = Min(1000, n - TokenOffset(calls[i].nextToken))

\* the store handed out a token exactly while records were left
TokensOnlyWhileMore(calls, n) ==
    \A i \in 1..Len(calls) :
        calls[i].api = "list_vectors" =>
            (calls[i].nextTokenOut.isNone <=>
                TokenOffset(calls[i].nextToken) + Len(calls[i].keys) >= n)

\* C3: get_document_count follows the continuation tokens to exhaustion:
\* against an index of N records that nobody else writes and whose requests
\* succeed, the first request carries no token, each further request carries
\* the token the previous answer returned, the last answer has no token, and
\* the result is N; when the store serves the records in pages of 1000 (the
\* last one shorter) it makes ceil(N/1000) requests, one when N = 0.
C3_CountPagination ==
    (mRet.op = "get_document_count" /\ mPc = "idle" /\ ~mWritten
        /\ NoFault(mCalls)) =>
        /\ mRet.result = Return(mN)
        /\ Len(mCalls) >= 1
        /\ mCalls[1].nextToken.isNone
        /\ \A i \in 1..Len(mCalls) :
              /\ mCalls[i].api = "list_vectors"
              /\ mCalls[i].maxResults = 1000
              /\ i < Len(mCalls) =>
                    /\ Truthy(mCalls[i].nextTokenOut)
                    /\ mCalls[i + 1].nextToken = mCalls[i].nextTokenOut
        /\ ~Truthy(mCalls[Len(mCalls)].nextTokenOut)
        /\ (FullPages(mCalls, mN) /\ TokensOnlyWhileMore(mCalls, mN)) =>
              Len(mCalls) = Max(1, (mN + 999) \div 1000)

C3_Witness ==
    /\ mRet.op = "get_document_count"
    /\ mPc = "idle"
    /\ ~mWritten
    /\ NoFault(mCalls)
    /\ FullPages(mCalls, mN)
    /\ TokensOnlyWhileMore(mCalls, mN)
    /\ mN = 2500
    /\ Len(mCalls) = 3
    /\ mRet.result = Return(2500)

----------------------------------------------------------------------------
(* Properties of the record operations *)

StoreFailed(calls) == \E i \in 1..Len(calls) : calls[i].outcome = "raise"

StoreOps ==
    {"insert_documents", "get_documents", "search_similar", "delete_documents",
     "add_document", "search_documents", "delete_document",
     "delete_all_documents"}

\* C8: when a store request of an insert, search or delete fails, the
\* operation ends with an error for its caller and never with a value: so for
\* the client's insert_documents, get_documents, search_similar and
\* delete_documents and for the manager's add_document, search_documents,
\* delete_document and delete_all_documents.
C8_StoreFailureReraised ==
    (mPc = "idle" /\ mRet.op \in StoreOps /\ StoreFailed(mCalls)) =>
        mRet.result.outcome = "raise"

\* a search of the manager whose query the store failed, ended with a value
C8_Witness ==
    /\ mPc = "idle"
    /\ mRet.op = "search_documents"
    /\ StoreFailed(mCalls)
    /\ mRet.result = Return(<<>>)

\* what holds of C8: the four operations of the client, and add_document,
\* end with the store's error
C8_AdapterReraises ==
    (mPc = "idle" /\ StoreFailed(mCalls)
       /\ mRet.op \in {"insert_documents", "get_documents", "search_similar",
                       "delete_documents", "add_document"}) =>
        /\ mRet.result.outcome = "raise"
        /\ mRet.result.error \in { f.error : f \in StoreFaults }

\* the operation completed last
LastOp == mLog[Len(mLog)]

\* this step completes a call of op
Completes(op) == Len(mLog') = Len(mLog) + 1 /\ mLog'[Len(mLog')].op = op

\* C13: a call of add_document that succeeds, its uuid4 key not yet held by
\* the index, adds exactly one record to the index and leaves every record
\* held before as it was; the record added has the returned id as its key and
\* carries the content and the embedding of the call.  So n such calls with no
\* deletion between them leave n more records, whether or not they carry the
\* same content and embedding.
C13_FreshKey ==
    [][ (Completes("add_document")
           /\ mLog'[Len(mLog')].result.outcome = "return"
           /\ \A i \in 1..Len(store) :
                 store[i].key /= mLog'[Len(mLog')].result.value.id) =>
          LET call == mLog'[Len(mLog')]
          IN  /\ Len(store') = Len(store) + 1
              /\ SubSeq(store', 1, Len(store)) = store
              /\ store'[Len(store')] =
                    [key |-> call.result.value.id,
                     data |-> [float32 |-> call.args.embedding],
                     metadata |-> [content |-> call.args.content]]
              /\ call.result.value =
                    [id |-> store'[Len(store')].key,
                     content |-> call.args.content, success |-> TRUE]
      ]_vars

\* two calls of add_document with the same content and embedding have
\* succeeded on an empty index, which now holds two records
C13_Witness ==
    /\ Len(mLog) = 2
    /\ \A i \in 1..2 : /\ mLog[i].op = "add_document"
                       /\ mLog[i].result.outcome = "return"
    /\ mLog[1].args = mLog[2].args
    /\ mLog[1].result.value.id /= mLog[2].result.value.id
    /\ Len(store) = 2
    /\ store[1].key = mLog[1].result.value.id
    /\ store[2].key = mLog[2].result.value.id
    /\ store[1].metadata = store[2].metadata
    /\ store[1].data = store[2].data

\* the call at position j of the log deleted key successfully
DeletedAt(j, key) ==
    /\ mLog[j].op = "delete_documents"
    /\ mLog[j].result.outcome = "return"
    /\ \E n \in 1..Len(mLog[j].args.keys) : mLog[j].args.keys[n] = key

\* C14: when insert_documents has stored a document (the call returned) and
\* get_documents is then called with its key, no delete of that key having
\* succeeded in between, the records returned hold one with that key, whose
\* metadata.content is the document's content and whose data.float32 is its
\* embedding.
C14_InsertThenGet ==
    (mLog /= <<>> /\ LastOp.op = "get_documents"
       /\ LastOp.result.outcome = "return") =>
        \A i \in 1..(Len(mLog) - 1) :
            (mLog[i].op = "insert_documents" /\ mLog[i].result.outcome = "return") =>
                \A n \in 1..Len(mLog[i].args.documents) :
                    LET doc == mLog[i].args.documents[n]
                        got == LastOp.result.value
                    IN  ((\E k \in 1..Len(LastOp.args.keys) :
                              LastOp.args.keys[k] = doc.key)
                           /\ \A j \in (i + 1)..(Len(mLog) - 1) :
                                 ~DeletedAt(j, doc.key)) =>
                            \E g \in 1..Len(got) :
                                /\ got[g].key = doc.key
                                /\ got[g].metadata.content = doc.metadata.content
                                /\ got[g].data.float32 = doc.data.float32

\* a document inserted into an index that did not hold it, another key
\* deleted, and the document fetched by its key
C14_Witness ==
    /\ Len(mLog) = 3
    /\ mLog[1].op = "insert_documents"
    /\ mLog[1].result.outcome = "return"
    /\ Len(mLog[1].args.documents) = 1
    /\ mLog[2].op = "delete_documents"
    /\ mLog[2].result.outcome = "return"
    /\ ~DeletedAt(2, mLog[1].args.documents[1].key)
    /\ mLog[3].op = "get_documents"
    /\ mLog[3].args.keys = <<mLog[1].args.documents[1].key>>
    /\ mLog[3].result = Return(<<mLog[1].args.documents[1]>>)
    /\ Len(store) = 1

\* C15: list_documents(limit) makes one list_vectors request, with maxResults
\* = limit and no continuation token; when that request fails or yields no
\* vectors it returns [] and makes no other request; otherwise it makes one
\* get_vectors request, for exactly the keys listed and with data and
\* metadata, follows no continuation token, and returns the records this
\* request yields.  It returns at most limit records.
C15_ListDocuments ==
    (mLog /= <<>> /\ LastOp.op = "list_documents" /\ mPc = "idle") =>
        LET limit == LastOp.args.limit IN
        /\ LastOp.result.outcome = "return"
        /\ Len(LastOp.result.value) <= limit
        /\ Len(mCalls) \in {1, 2}
        /\ mCalls[1].api = "list_vectors"
        /\ mCalls[1].maxResults = limit
        /\ mCalls[1].nextToken = NoneArg
        /\ (mCalls[1].outcome = "raise" \/ mCalls[1].keys = <<>>) =>
              (Len(mCalls) = 1 /\ LastOp.result = Return(<<>>))
        /\ (mCalls[1].outcome = "return" /\ mCalls[1].keys /= <<>>) =>
              /\ Len(mCalls) = 2
              /\ mCalls[2].api = "get_vectors"
              /\ mCalls[2].keys = mCalls[1].keys
              /\ mCalls[2].returnData /\ mCalls[2].returnMetadata
              /\ mCalls[2].outcome = "return" =>
                    LastOp.result = Return(mCalls[2].vectors)

\* a listing of one key out of two, the store offering a continuation token,
\* and the one record returned
C15_Witness ==
    /\ mLog /= <<>>
    /\ LastOp.op = "list_documents"
    /\ LastOp.args.limit = 1
    /\ Len(store) = 2
    /\ Len(mCalls) = 2
    /\ Truthy(mCalls[1].nextTokenOut)
    /\ LastOp.result = Return(<<store[1]>>)

\* C16: search_documents(query_embedding, top_k) makes one query_vectors
\* request, for the given vector and top_k and asking for metadata and
\* distance; when the request succeeds it returns one entry per match of the
\* response, in the same order and of the same count, each of exactly the
\* fields key, content, distance and metadata: the key of the match, the
\* content of its metadata or 'N/A' when there is none, its distance or None
\* when there is none, its metadata or an empty dict when there is none.
C16_SearchDocuments ==
    (mLog /= <<>> /\ LastOp.op = "search_documents" /\ mPc = "idle") =>
        /\ Len(mCalls) = 1
        /\ mCalls[1].api = "query_vectors"
        /\ mCalls[1].queryVector = LastOp.args.query_embedding
        /\ mCalls[1].topK = LastOp.args.top_k
        /\ mCalls[1].returnMetadata /\ mCalls[1].returnDistance
        /\ mCalls[1].outcome = "return" =>
              LET raw == mCalls[1].response.vectors
                  out == LastOp.result.value
              IN  /\ LastOp.result.outcome = "return"
                  /\ Len(out) = Len(raw)
                  /\ \A i \in 1..Len(raw) :
                        /\ DOMAIN out[i] = {"key", "content", "distance", "metadata"}
                        /\ out[i].key = raw[i].key
                        /\ out[i].content =
                              IF "metadata" \in DOMAIN raw[i]
                                    /\ "content" \in DOMAIN raw[i].metadata
                              THEN raw[i].metadata.content ELSE "N/A"
                        /\ out[i].distance =
                              IF "distance" \in DOMAIN raw[i]
                              THEN raw[i].distance ELSE NoneArg
                        /\ out[i].metadata =
                              IF "metadata" \in DOMAIN raw[i]
                              THEN raw[i].metadata ELSE EmptyDict

\* a search that got two matches carrying the keys alone, and returned them
\* with the defaults
C16_Witness ==
    /\ mLog /= <<>>
    /\ LastOp.op = "search_documents"
    /\ mCalls[1].outcome = "return"
    /\ Len(LastOp.result.value) = 2
    /\ DOMAIN mCalls[1].response.vectors[1] = {"key"}
    /\ LastOp.result.value[1].content = "N/A"
    /\ LastOp.result.value[2].distance = NoneArg
    /\ LastOp.result.value[2].key /= LastOp.result.value[1].key

\* a search that got two matches carrying metadata and distance
C16_WitnessFull ==
    /\ mLog /= <<>>
    /\ LastOp.op = "search_documents"
    /\ Len(LastOp.result.value) = 2
    /\ LastOp.result.value[1].content = "Convert to S3 format"
    /\ LastOp.result.value[2].content = "hello"
    /\ LastOp.result.value[2].distance = 1

\* C17: search_similar(embedding, k), when its query_vectors request succeeds,
\* returns the matches of the store's response: at most k of them, in the
\* store's order, with the keys and the order that search_documents gives
\* for the same response, so a result that is empty only when the response
\* holds no match.
C17_SearchSimilar ==
    (mLog /= <<>> /\ LastOp.op = "search_similar" /\ mPc = "idle"
       /\ mCalls[1].outcome = "return") =>
        LET raw == mCalls[1].response.vectors
            out == LastOp.result.value
            mgr == search_documents(Return(mCalls[1].response)).value
        IN  /\ LastOp.result.outcome = "return"
            /\ Len(out) <= LastOp.args.k
            /\ Len(out) = Len(raw)
            /\ Len(out) = Len(mgr)
            /\ \A i \in 1..Len(out) :
                  out[i].key = raw[i].key /\ out[i].key = mgr[i].key

\* a search by the client whose response held a match, and which returned
\* an empty list
C17_Witness ==
    /\ mLog /= <<>>
    /\ LastOp.op = "search_similar"
    /\ LastOp.args.k = 10
    /\ mCalls[1].outcome = "return"
    /\ Len(mCalls[1].response.vectors) = 2
    /\ LastOp.result = Return(<<>>)

----------------------------------------------------------------------------
(* Properties of the bulk load *)

\* the least number of batches of at most BATCH_SIZE records that hold n
CeilBatches(n) == CHOOSE c \in 0..n : c * BATCH_SIZE >= n /\ (c - 1) * BATCH_SIZE < n

\* the record ids in the keys of the vectors a batch put, in order
RecordIds(f) == [n \in 1..Len(f.keys) |-> f.keys[n].record_id]

\* C18: once every batch is submitted there are ceil(total / 500) of them,
\* numbered from 0 in order; each holds between 1 and 500 records and only
\* the last holds fewer than 500; their sizes sum to the total; once every
\* batch has run, the record ids generated for batch b are b * 500 + i for
\* i below its size, pairwise distinct over all batches and covering
\* exactly 0 .. total - 1 (which the index then holds, if every upload
\* succeeded).
C18_BatchSplit ==
    (lPc /= "submit") =>
        /\ Len(lFutures) = CeilBatches(lTotal)
        /\ \A j \in 1..Len(lFutures) :
              /\ lFutures[j].batch = j - 1
              /\ lFutures[j].size \in 1..BATCH_SIZE
              /\ (j < Len(lFutures)) => lFutures[j].size = BATCH_SIZE
        /\ SumSizes(lFutures, Len(lFutures)) = lTotal
        /\ (\A j \in 1..Len(lFutures) :
                lFutures[j].state \in {"done", "yielded"}) =>
              LET all == UNION { { lFutures[j].keys[n].record_id :
                                     n \in 1..Len(lFutures[j].keys) } :
                                 j \in 1..Len(lFutures) }
              IN  /\ \A j \in 1..Len(lFutures) :
                        RecordIds(lFutures[j]) =
                            [n \in 1..lFutures[j].size |->
                                (j - 1) * BATCH_SIZE + (n - 1)]
                  /\ Cardinality(all) = SumSizes(lFutures, Len(lFutures))
                  /\ all = 0..(lTotal - 1)
        /\ (lPc = "done" /\ lStats.successful_batches = Len(lFutures)) =>
              /\ Len(store) = lTotal
              /\ { store[i].key.record_id : i \in 1..Len(store) }
                    = 0..(lTotal - 1)

\* three batches submitted, of 500, 500 and 1 records, all uploaded, the
\* first of them last
C18_Witness ==
    /\ lPc = "done"
    /\ lTotal = TOTAL_RECORDS + 1
    /\ Len(lFutures) = 3
    /\ lFutures[3].size = 1
    /\ Len(store) = lTotal
    /\ store[lTotal].key.record_id = BATCH_SIZE - 1

\* the module's own load: 1000 records in two full batches
C18_WitnessOwn ==
    /\ lPc = "done"
    /\ lTotal = TOTAL_RECORDS
    /\ Len(lFutures) = 2
    /\ lFutures[2].size = BATCH_SIZE
    /\ Len(store) = TOTAL_RECORDS

\* C19: a batch that fails stops no other: when main() is done every batch
\* submitted has exactly one result, a success or a failure that carries
\* the error text, and the result list has one entry per batch.  The number
\* of successful batches and the total uploaded (the sum of the sizes of
\* the successful batches) are those of the batches themselves, whatever
\* the order in which the results arrived.
C19_Results ==
    (lPc = "done") =>
        LET ok == { j \in 1..Len(lFutures) : lFutures[j].result.success }
            okSizes == [j \in 1..Len(lFutures) |->
                           [size |-> IF j \in ok THEN lFutures[j].size ELSE 0]]
        IN  /\ Len(lFutures) = num_batches(lTotal)
            /\ Len(lResults) = Len(lFutures)
            /\ \A j \in 1..Len(lFutures) :
                  /\ Cardinality({ n \in 1..Len(lResults) :
                                     lResults[n].batch = lFutures[j].batch }) = 1
                  /\ \E n \in 1..Len(lResults) :
                        lResults[n] = lFutures[j].result
                  /\ lFutures[j].result.batch = lFutures[j].batch
                  /\ lFutures[j].result.size = lFutures[j].size
                  /\ lFutures[j].result.success \in BOOLEAN
                  /\ ~lFutures[j].result.success =>
                        /\ "error" \in DOMAIN lFutures[j].result
                        /\ lFutures[j].result.error /= ""
            /\ lStats.successful_batches = Cardinality(ok)
            /\ lStats.total_uploaded = SumSizes(okSizes, Len(okSizes))

\* three batches of which the first failed and the others were uploaded, the
\* results arriving last batch first
C19_Witness ==
    /\ lPc = "done"
    /\ Len(lResults) = 3
    /\ lResults[1].batch = 2 /\ lResults[1].success
    /\ lResults[2].batch = 1 /\ lResults[2].success
    /\ lResults[3].batch = 0 /\ ~lResults[3].success
    /\ lStats = [successful_batches |-> 2, total_uploaded |-> BATCH_SIZE + 1]
    /\ Len(store) = BATCH_SIZE + 1
    /\ store[1].key.record_id = 2 * BATCH_SIZE

----------------------------------------------------------------------------
(* Document.create without an embedding *)

\* C20: Document.create(content) with no embedding returns a Document whose
\* key is a text of 36 characters, whose content is the content given, and
\* whose embedding has exactly 128 components, each at least 0 and less
\* than 1.
C20_CreateDefault ==
    (dIn.op = "create_default") =>
        /\ dOut.outcome = "return"
        /\ Len(dOut.value.key) = 36
        /\ \A i \in 1..36 : dOut.value.key[i] \in STRING
        /\ dOut.value.content = dIn.content
        /\ Len(dOut.value.embedding) = 128
        /\ \A i \in 1..128 :
              /\ dOut.value.embedding[i] >= 0
              /\ dOut.value.embedding[i] < Unit

\* Document.create("hello") returned, its embedding with a component 0 and
\* one just below 1
C20_Witness ==
    /\ dIn.op = "create_default"
    /\ dIn.content = "hello"
    /\ dOut.outcome = "return"
    /\ dOut.value.key[9] = "-"
    /\ \E i, j \in 1..128 :
          dOut.value.embedding[i] = 0 /\ dOut.value.embedding[j] = Unit - 1

----------------------------------------------------------------------------
(* Ties in rank_by_similarity *)

\* C21: the entries of a ranking can be traced to distinct candidates of the
\* input that carry an embedding, each entry holding its candidate, such
\* that two entries of equal score stand in the result in the order of
\* their candidates in the input.
C21_StableOnTies ==
    (sIn.op = "rank_by_similarity" /\ sOut.outcome = "return") =>
        LET docs == sIn.documents
            r == sOut.value
        IN  \E pos \in [1..Len(r) -> Carrying(docs)] :
                /\ \A i \in 1..Len(r) : r[i][1] = docs[pos[i]]
                /\ \A i, j \in 1..Len(r) :
                      /\ (i /= j) => pos[i] /= pos[j]
                      /\ (i < j /\ ~ScoreLess(r[j][2], r[i][2])) =>
                            pos[i] < pos[j]

\* three candidates ranked: the last of the input first, then two different
\* candidates of equal score in their input order
C21_Witness ==
    /\ sIn.op = "rank_by_similarity"
    /\ sOut.outcome = "return"
    /\ Len(sIn.documents) = 3
    /\ Len(sOut.value) = 3
    /\ sOut.value[1][1] = sIn.documents[3]
    /\ sOut.value[2][1] = sIn.documents[1]
    /\ sOut.value[3][1] = sIn.documents[2]
    /\ sIn.documents[1] /= sIn.documents[2]
    /\ sOut.value[2][2] = sOut.value[3][2]
    /\ sOut.value[1][2] /= sOut.value[2][2]

----------------------------------------------------------------------------
(* add_document with an embedding of the wrong length *)

\* C22: a call of add_document with an embedding whose length is not 128
\* raises the ValueError of the Document, with the length in its message;
\* it makes no store request, leaves the index as it was and returns no
\* success summary.
C22_ValidationBeforeStore ==
    [][ (Completes("add_document")
           /\ Len(mLog'[Len(mLog')].args.embedding) /= EMBEDDING_DIM) =>
          LET call == mLog'[Len(mLog')]
          IN  /\ call.result.outcome = "raise"
              /\ call.result.error = "ValueError"
              /\ call.result.msg =
                    <<"Embedding must be 128 dimensions, got ">>
                        \o IntStr(Len(call.args.embedding))
              /\ mCalls' = <<>>
              /\ store' = store
              /\ mRet'.result = call.result
      ]_vars

\* a document was added, then a call with 127 components raised and the
\* index still holds the one record
C22_Witness ==
    /\ Len(mLog) = 2
    /\ mLog[1].op = "add_document"
    /\ mLog[1].result.outcome = "return"
    /\ mLog[2].op = "add_document"
    /\ Len(mLog[2].args.embedding) = EMBEDDING_DIM - 1
    /\ mLog[2].result.outcome = "raise"
    /\ mCalls = <<>>
    /\ Len(store) = 1
    /\ store[1].key = mLog[1].result.value.id

----------------------------------------------------------------------------
(* The pause of create_index *)

\* C23: create_index returns only after its pause when the store reported a
\* fresh creation: it is in time.sleep only after such an answer, it then
\* returns no sooner than INDEX_READY_SLEEP seconds after the answer, and
\* every call the caller makes afterwards is issued no sooner than that;
\* when the store answers with already-exists or another error, create_index
\* returns or raises at once, without a pause.
C23_PauseAfterCreation ==
    /\ (lcPc = "sleeping") =>
          /\ lcPending.op = "create_index"
          /\ lcPending.answer.outcome = "return"
          /\ lcPending.issued = lcNow
    /\ \A j \in 1..Len(lcHist) :
          LET h == lcHist[j] IN
          (h.op = "create_index") =>
              /\ (h.answer.outcome = "return") =>
                    /\ h.result = h.answer
                    /\ h.slept = INDEX_READY_SLEEP
                    /\ h.returned >= h.issued + INDEX_READY_SLEEP
                    /\ \A k \in (j + 1)..Len(lcHist) :
                          lcHist[k].issued >= h.issued + INDEX_READY_SLEEP
                    /\ lcNow >= h.issued + INDEX_READY_SLEEP
              /\ (h.answer.outcome = "raise") =>
                    /\ h.slept = 0
                    /\ h.returned = h.issued
                    /\ (IsConflict(h.answer) /\ IsAlreadyExists(h.result))
                          \/ h.result = h.answer

\* an index created, the pause a second longer than asked for, and a second
\* create_index, issued after the pause, answered with already-exists at once
C23_Witness ==
    /\ Len(lcHist) = 3
    /\ lcHist[2].op = "create_index"
    /\ lcHist[2].answer.outcome = "return"
    /\ lcHist[2].returned = lcHist[2].issued + INDEX_READY_SLEEP + 1
    /\ lcHist[3].op = "create_index"
    /\ IsAlreadyExists(lcHist[3].result)
    /\ lcHist[3].issued = lcHist[2].returned
    /\ lcHist[3].returned = lcHist[3].issued

----------------------------------------------------------------------------
(* The worker pool of the bulk load *)

\* the batches whose records the index holds
Uploaded(st) == { st[i].metadata.batch : i \in 1..Len(st) }

\* C24: at every moment at most NUM_THREADS uploads are under way, whatever
\* the number of batches submitted; the others wait in the queue in the
\* order of their submission; a batch is taken from the queue once and its
\* put_vectors request is made once (none while it waits or is under way,
\* one when it is done), so the index holds no record twice; and a step of
\* a worker changes the entry of its own batch and no other, the vectors it
\* puts being those generated from its batch number and size.
C24_BoundedPool ==
    /\ [](/\ InFlight(lFutures) <= NUM_THREADS
          /\ \A j \in 1..Len(lFutures) :
                /\ lFutures[j].state \in {"queued", "running", "done"}
                /\ (lFutures[j].state = "queued") =>
                      /\ "uploads" \notin DOMAIN lFutures[j]
                      /\ \A k \in (j + 1)..Len(lFutures) :
                            lFutures[k].state = "queued"
                      /\ lFutures[j].batch \notin Uploaded(store)
                /\ (lFutures[j].state = "running") =>
                      /\ lFutures[j].uploads = 0
                      /\ lFutures[j].batch \notin Uploaded(store)
                /\ (lFutures[j].state = "done") =>
                      /\ lFutures[j].uploads = 1
                      /\ RecordIds(lFutures[j]) =
                            [n \in 1..lFutures[j].size |->
                                lFutures[j].batch * BATCH_SIZE + (n - 1)]
                      /\ lFutures[j].result.success
                            <=> lFutures[j].batch \in Uploaded(store)
          /\ Cardinality({ store[i].key : i \in 1..Len(store) }) = Len(store))
    /\ [][ (Len(lFutures') = Len(lFutures)) =>
              Cardinality({ j \in 1..Len(lFutures) :
                              lFutures'[j] /= lFutures[j] }) <= 1
         ]_vars

\* five batches submitted: four uploads under way, and the fifth batch
\* waits in the queue
C24_Witness ==
    /\ Len(lFutures) = NUM_THREADS + 1
    /\ InFlight(lFutures) = NUM_THREADS
    /\ lFutures[NUM_THREADS + 1].state = "queued"

\* the first batch is done, and the fifth is under way with three others
C24_WitnessNext ==
    /\ Len(lFutures) = NUM_THREADS + 1
    /\ InFlight(lFutures) = NUM_THREADS
    /\ lFutures[1].state = "done"
    /\ lFutures[NUM_THREADS + 1].state = "running"

\* ---------------------------------------------------------------------------
\* C25  get_document_count leaves its loop exactly at the first list_vectors
\* response whose nextToken is absent or empty: at that response it returns
\* and issues no further listing call; at a response that carries a token it
\* does not return, keeps the token, and sends it with the next request; so
\* while every page carries a token the operation is still in its loop,
\* however many pages it has followed.  (A listing call that fails is the
\* other way out of the loop, the subject of C26.)
C25_StopsAtFirstTokenlessPage ==
    /\ [][ (mPc = "get_document_count" /\ Len(mCalls') = Len(mCalls) + 1
              /\ mCalls'[Len(mCalls')].outcome = "return") =>
             LET c == mCalls'[Len(mCalls')] IN
             IF Truthy(c.nextTokenOut)
             THEN /\ mPc' = "get_document_count"
                  /\ mLog' = mLog
                  /\ mRet' = mRet
                  /\ mLocal'.next_token = c.nextTokenOut
             ELSE /\ mPc' = "idle"
                  /\ Completes("get_document_count")
                  /\ mRet'.op = "get_document_count"
         ]_vars
    /\ [][ (mPc = "get_document_count" /\ Len(mCalls') = Len(mCalls) + 1) =>
             mCalls'[Len(mCalls')].nextToken =
                 (IF mCalls = <<>> THEN NoneArg
                  ELSE mCalls[Len(mCalls)].nextTokenOut)
         ]_vars
    /\ [][ (mPc = "idle" /\ mPc' = "idle") => mCalls' = mCalls \/ nOps' /= nOps
         ]_vars
    /\ [](mPc = "get_document_count" =>
             \A i \in 1..Len(mCalls) :
                 /\ mCalls[i].outcome = "return"
                 /\ Truthy(mCalls[i].nextTokenOut))
    /\ []((mPc = "idle" /\ mRet.op = "get_document_count" /\ mCalls /= <<>>
              /\ \A i \in 1..Len(mCalls) : mCalls[i].api = "list_vectors") =>
             /\ \A i \in 1..(Len(mCalls) - 1) :
                    /\ mCalls[i].outcome = "return"
                    /\ Truthy(mCalls[i].nextTokenOut)
             /\ \/ mCalls[Len(mCalls)].outcome = "raise"
                \/ ~Truthy(mCalls[Len(mCalls)].nextTokenOut))

\* every one of MaxPages pages carried a token, the last ones past the end
\* of the index, and the operation has not returned
C25_Witness ==
    /\ mPc = "get_document_count"
    /\ Len(mCalls) = MaxPages
    /\ \A i \in 1..Len(mCalls) : Truthy(mCalls[i].nextTokenOut)
    /\ mCalls[Len(mCalls)].keys = <<>>
    /\ mLog = <<>>

\* the third response is the first with an empty token: the operation
\* returned at it
C25_WitnessEmptyToken ==
    /\ mPc = "idle"
    /\ mRet.op = "get_document_count"
    /\ Len(mCalls) = 3
    /\ Truthy(mCalls[1].nextTokenOut)
    /\ Truthy(mCalls[2].nextTokenOut)
    /\ mCalls[3].nextTokenOut = Some(<<>>)
    /\ mRet.result = Return(mN)
    /\ mN = 2500

\* populate_data.main: the existing documents are deleted when the count it
\* was given is positive
main_deletes_existing(current_count) == current_count > 0

\* ---------------------------------------------------------------------------
\* C26  get_document_count never raises: every completion is a returned
\* number.  When a list_vectors call failed, on the first page or after pages
\* that were counted, the result is 0 and the records of the earlier pages are
\* dropped; the failing call is the last one.  The caller that deletes the
\* existing documents on a positive count therefore skips the deletion after
\* a failed listing just as it does for an empty index.
C26_FailureReturnsZero ==
    (mPc = "idle" /\ mRet.op = "get_document_count") =>
        /\ mRet.result.outcome = "return"
        /\ mRet.result.value \in Nat
        /\ LastOp = Completed("get_document_count", EmptyDict, mRet.result)
        /\ StoreFailed(mCalls) =>
              /\ mRet.result = Return(0)
              /\ mCalls[Len(mCalls)].outcome = "raise"
              /\ \A i \in 1..(Len(mCalls) - 1) : mCalls[i].outcome = "return"
              /\ ~main_deletes_existing(mRet.result.value)
        /\ (mN = 0 /\ ~mWritten) =>
              /\ mRet.result = Return(0)
              /\ ~main_deletes_existing(mRet.result.value)

\* 2500 records: two pages of 1000 were counted, the third call failed, and
\* the result is 0
C26_Witness ==
    /\ mPc = "idle"
    /\ mRet = [op |-> "get_document_count", result |-> Return(0)]
    /\ mN = 2500
    /\ Len(mCalls) = 3
    /\ Len(mCalls[1].keys) = 1000
    /\ Len(mCalls[2].keys) = 1000
    /\ mCalls[3].outcome = "raise"
    /\ Len(store) = 2500

\* the first call failed on a populated index
C26_WitnessFirstPage ==
    /\ mPc = "idle"
    /\ mRet = [op |-> "get_document_count", result |-> Return(0)]
    /\ mN = 1
    /\ Len(mCalls) = 1
    /\ mCalls[1].outcome = "raise"

\* an empty index, listed without a failure: the same result
C26_WitnessEmptyIndex ==
    /\ mPc = "idle"
    /\ mRet = [op |-> "get_document_count", result |-> Return(0)]
    /\ mN = 0
    /\ Len(store) = 0
    /\ NoFault(mCalls)
    /\ Len(mCalls) = 1

====
